---- MODULE Spec2Model ----
(***************************************************************************)
(* A model of the object-lifecycle engine of the target:                   *)
(*   - the bucket-xaction registry        (xaction/xreg/bucket.go)         *)
(*   - the erase xaction and its erasers  (mirror/merase.go)               *)
(*   - the multipart-upload tracker       (ais/s3/mpt.go)                  *)
(* Each subsystem has its own next-state relation and specification; the   *)
(* subsystems share no state.                                              *)
(***************************************************************************)
EXTENDS Integers, Sequences, FiniteSets, Bags, TLC

\* ----------------------------------------------------------------- bounds
\* xaction objects ever constructed by the registry
MaxXacts == 2
\* mountpath events during one erase xaction
MaxNotify == 2
\* files each eraser finds in the bucket directory of its mountpath
NFiles == 1
\* calls made on the erase xaction after it finished, of each kind
MaxLate == 1
\* InitUpload calls
\* ListUploads is called with maxUploads up to
MaxUploads == 2

\* dpqs allocated at most
MaxDpqs == 2

MaxInits == 2
\* AddPart calls
MaxAdds == 2
\* largest part number a client sends
MaxPartNum == 2
\* parts a CheckParts request names
MaxReq == 2
MaxCluACLs == 2
MaxBckACLs == 1
MaxMergeACLs == 2
MaxSegs == 2
\* notifications sent while Run handles one
MaxBurst == 2
\* replicas of one object, the primary included
MaxCopies == 2
\* getInventory calls
MaxInvCalls == 2

\* ------------------------------------------------------------- value sets
Tasks == {"t1", "t2"}
Bcks == {"b1", "b2"}
UUIDs == {"u1", "u2"}
NoUUID == ""

ActMakeNCopies == "make-n-copies"
ActPromote == "promote"
ActMoveBck == "movebck"
ActList == "list"
ActSummary == "summary"
ActQuery == "query"

\* kinds renewed through RenewBucketXact in this model
BucketXactKinds == {ActMakeNCopies, ActPromote, ActMoveBck}

\* kinds whose entry embeds BaseBckEntry and keeps its hooks
DefaultHookKinds == {ActMakeNCopies, ActPromote}

\* kinds whose xaction implements xaction.XactDemand
DemandKinds == {ActMakeNCopies}

VARIABLES
    xacts,    \* every xaction constructed so far, by id (1..Len): kind, bck, uuid, st, pending
    reg,      \* ids of the entries the registry holds (r.entries)
    qreg,     \* query.Registry: uuid -> id of the query xaction registered under it (NoEntry: none)
    task      \* each calling task: its position in the renewal it runs, its result, and
              \* the entries the call itself has removed from or added to the registry

regVars == <<xacts, reg, qreg, task>>

VARIABLES
    mpaths,          \* fs.Mountpaths: the available mountpaths
    mpathChangeCh,   \* r.mpathChangeCh: notifications buffered in it
    senders,         \* Req*Mountpath calls blocked in their send
    notified,        \* mountpath events so far
    abortCh,         \* the abort channel of the xaction: "open" | "closed"
    etime,           \* end time of the xaction (NoTime: not set)
    clock,           \* what time.Now() returns next
    ticker,          \* XactDemandBase: the idle ticker runs
    runPc,           \* position of Run
    runAfter,        \* where Run goes on after stopping the erasers
    toStop,          \* erasers the running loop over r.erasers has not reached yet
    availablePaths,  \* Run's local availablePaths
    runRes,          \* what Run returned
    emap,            \* r.erasers: mountpath -> eraser (position, stop channel, files left)
    orphans,         \* the erasers of earlier maps whose goroutine still runs (a bag)
    lateAborts,      \* Abort() calls made after the xaction finished
    lateStops        \* stop() calls made after Run returned

eraseVars ==
    <<mpaths, mpathChangeCh, senders, notified, abortCh, etime, clock, ticker,
      runPc, runAfter, toStop, availablePaths, runRes, emap, orphans,
      lateAborts, lateStops>>

\* ---- the multipart-upload tracker (ais/s3/mpt.go)
VARIABLES
    up,              \* uploads: upload id -> mpt{bckName, objName, parts, ctime}
    workfiles,       \* the part workfiles that exist on disk
    xattr,           \* object FQN -> the part attributes stored as xattr
    mclock,          \* the clock InitUpload reads
    nAdds,           \* AddPart calls made so far
    mu,              \* the registry lock: "" (free) | "w" (Lock) | "r" (RLock), held by the caller
    mcall            \* the caller of FinishUpload / ListParts / CheckParts: position, arguments, result

mptVars == <<up, workfiles, xattr, mclock, nAdds, mu, mcall>>

\* ---- the authorization token (authn) and the merge of bucket ACLs
VARIABLES
    tk,              \* the token: UserID, ClusterACLs, BucketACLs, IsAdmin
    aclCall,         \* the CheckPermissions call made on the token: arguments and result
    oldACLs,         \* MergeBckACLs: its first argument
    newACLs,         \* MergeBckACLs: its second argument
    merged           \* MergeBckACLs: what it returned (NoMerge: not called yet)

authVars == <<tk, aclCall, oldACLs, newACLs, merged>>

\* ---- the datapath query (ais/dpq.go)
VARIABLES
    rawQuery,        \* the raw URL query: its '&'-separated segments
    dpqCall          \* the parse call made on it: build, returned error, the dpq after it

dpqVars == <<rawQuery, dpqCall>>

\* mirror/merase.go, eraser.walk on one file
VARIABLES
    lom,        \* the LOM of the file walk is called with, and what is on disk
    walkPc,     \* where walk is
    walkRes,    \* what walk returned
    nlock       \* holder of the exclusive name-lock of the object's key

walkVars == <<lom, walkPc, walkRes, nlock>>

\* lru, InitAndRun
VARIABLES
    evictable,  \* PermToEvict() of each registered content type
    lru,        \* InitAndRun: where it is, the content types and mountpaths still to
                \* range over, the content type of this turn, the wait group
    joggers     \* the joggers started so far, running or done

lruVars == <<evictable, lru, joggers>>

\* ais/s3/mpt.go, the bucket inventory
VARIABLES
    upstream,   \* LastModified of the inventory csv objects in the S3 bucket
    cache,      \* the cached inventory file, ctx.Lom.FQN
    wfqn,       \* whether the workfile exists
    inv         \* the getInventory call: where it is, csv.mtime, ctx.Size, its result

invVars == <<upstream, cache, wfqn, inv>>

\* xreg, make-n-copies
VARIABLES
    runs        \* how many times Run was started, by xaction

mncVars == <<runs>>

\* ais/s3/mpt.go, what the last AddPart returned
VARIABLES
    added       \* the upload id, the workfile and the error of the last AddPart

addVars == <<added>>

\* ais/dpq.go, dpqPool
VARIABLES
    dpqs,       \* every dpq allocated so far: its fields, and whether parse has written to it
    dpqPool,    \* the dpqs that are in the pool
    dpqHeld     \* the dpqs that requests hold, between dpqAlloc and dpqFree

poolVars == <<dpqs, dpqPool, dpqHeld>>

baseVars == <<regVars, eraseVars, mptVars, authVars, dpqVars>>

moreVars == <<walkVars, lruVars, invVars, mncVars, addVars, poolVars>>

vars == <<regVars, eraseVars, mptVars, authVars, dpqVars, moreVars>>

\* ------------------------------------------------------------ xactions

Running == "running"
Aborted == "aborted"
FinishedSt == "finished"

\* Finished(): the xaction has ended, by completion or by abort
Finished(x) == x.st # Running

IsXactDemand(x) == x.kind \in DemandKinds

IncPending(x) == [x EXCEPT !.pending = @ + 1]

DecPending(x) == [x EXCEPT !.pending = @ - 1]

NewXact(kind, bck, uuid) ==
    [kind |-> kind, bck |-> bck, uuid |-> uuid, st |-> Running, pending |-> 0]

\* ------------------------------------------------------------ the result

NoEntry == 0

RenewRes(entry, err, isNew) == [entry |-> entry, err |-> err, isNew |-> isNew]

NoRes == RenewRes(NoEntry, FALSE, FALSE)

IdleTask ==
    [pc |-> "idle", op |-> "", kind |-> "", bck |-> "", uuid |-> NoUUID,
     res |-> NoRes, pre |-> FALSE, nInc |-> 0, nDec |-> 0, delta |-> {}]

\* ------------------------------------------------------------- the hooks

\* what the code cannot decide by itself: whether Start fails, and what the
\* hooks of an entry that overrides BaseBckEntry answer
HookInputs ==
    [startErr : BOOLEAN, keep : BOOLEAN, hookErr : BOOLEAN, postAbort : BOOLEAN]

BasePreRenewHookNeverKeeps(prev) == [keep |-> FALSE, err |-> FALSE]

\* BaseBckEntry.PreRenewHook: keep iff the previous xaction is on-demand
BasePreRenewHook(prev) == [keep |-> IsXactDemand(prev), err |-> FALSE]

\* BaseBckEntry.PostRenewHook: nothing
BasePostRenewHook(X, prevId) == X

PreRenewHook(kind, prev, in) ==
    IF kind \in DefaultHookKinds
    THEN BasePreRenewHook(prev)
    ELSE [keep |-> in.keep, err |-> in.hookErr]

PostRenewHook(kind, X, prevId, in) ==
    IF kind \in DefaultHookKinds
    THEN BasePostRenewHook(X, prevId)
    ELSE IF in.postAbort /\ X[prevId].st = Running
         THEN [X EXCEPT ![prevId].st = Aborted]
         ELSE X

\* --------------------------------------------------------- the registry

\* the non-terminal entries of the registry for (kind, bck), and uuid when given
RunningEntries(X, R, kind, bck, uuid) ==
    {i \in R : /\ X[i].kind = kind
               /\ X[i].bck = bck
               /\ X[i].st = Running
               /\ (uuid # NoUUID => X[i].uuid = uuid)}

\* the previous entries a lookup may find: any of the running ones, or none
PrevChoices(X, R, kind, bck, uuid) ==
    IF RunningEntries(X, R, kind, bck, uuid) = {}
    THEN {NoEntry}
    ELSE RunningEntries(X, R, kind, bck, uuid)

\* the entries by which two contents of the registry differ
RegDiff(R1, R2) == (R1 \ R2) \cup (R2 \ R1)

\* r.add(e)
add(X, R, x) == [xacts |-> Append(X, x), reg |-> R \cup {Len(X) + 1}]

\* renewBckXact, under the registry lock: look up, pre-hook, start, insert,
\* post-hook.  prevId is the entry the lookup found (NoEntry: none).
renewBckXact(X, R, kind, bck, uuid, prevId, in) ==
    LET hook == IF prevId = NoEntry
                THEN [keep |-> FALSE, err |-> FALSE]
                ELSE PreRenewHook(kind, X[prevId], in)
    IN  IF hook.err
        THEN [xacts |-> X, reg |-> R, res |-> RenewRes(NoEntry, TRUE, FALSE)]
        ELSE IF hook.keep
        THEN [xacts |-> X, reg |-> R, res |-> RenewRes(prevId, FALSE, FALSE)]
        ELSE IF in.startErr
        THEN [xacts |-> X, reg |-> R, res |-> RenewRes(NoEntry, TRUE, FALSE)]
        ELSE LET a == add(X, R, NewXact(kind, bck, uuid))
                 Y == IF prevId = NoEntry
                      THEN a.xacts
                      ELSE PostRenewHook(kind, a.xacts, prevId, in)
             IN  [xacts |-> Y, reg |-> a.reg, res |-> RenewRes(Len(X) + 1, FALSE, TRUE)]

\* renewBucketXact, after renewBckXact returned: is the pending counter touched
touchPendingAlways(X, res) == ~res.err /\ IsXactDemand(X[res.entry])

touchPending(X, res) == ~res.err /\ ~res.isNew /\ IsXactDemand(X[res.entry])

\* --------------------------------------------------- RenewBucketXact steps

\* the calls that may still construct an xaction
InFlight ==
    Cardinality({t \in Tasks : task[t].pc \notin {"idle", "inc", "dec", "go", "done"}})

\* RenewBucketXact(kind, bck, args) is called: the entry stub is made
CallRenewBucketXact(t, kind, bck) ==
    /\ task[t].pc = "idle"
    /\ Len(xacts) + InFlight < MaxXacts
    /\ task' = [task EXCEPT ![t] =
                   [IdleTask EXCEPT !.pc = "renew", !.op = "renewBucketXact",
                                    !.kind = kind, !.bck = bck,
                                    !.pre = RunningEntries(xacts, reg, kind, bck, NoUUID) # {}]]
    /\ UNCHANGED <<xacts, reg, qreg>>

\* res = r.renewBckXact(e, bck), then the test of res.Err
RenewBckXactStep(t) ==
    /\ task[t].pc = "renew"
    /\ \E in \in HookInputs :
       \E prevId \in PrevChoices(xacts, reg, task[t].kind, task[t].bck, NoUUID) :
          LET r == renewBckXact(xacts, reg, task[t].kind, task[t].bck, NoUUID, prevId, in)
          IN  /\ xacts' = r.xacts
              /\ reg' = r.reg
              /\ task' = [task EXCEPT ![t].res = r.res,
                                      ![t].delta = @ \cup RegDiff(reg, r.reg),
                                      ![t].pc = IF touchPending(r.xacts, r.res)
                                                THEN "inc" ELSE "done"]
    /\ UNCHANGED qreg

\* xactDemand.IncPending()
IncPendingStep(t) ==
    /\ task[t].pc = "inc"
    /\ xacts' = [xacts EXCEPT ![task[t].res.entry] = IncPending(@)]
    /\ task' = [task EXCEPT ![t].pc = "dec", ![t].nInc = @ + 1]
    /\ UNCHANGED <<reg, qreg>>

\* xactDemand.DecPending()
DecPendingStep(t) ==
    /\ task[t].pc = "dec"
    /\ xacts' = [xacts EXCEPT ![task[t].res.entry] = DecPending(@)]
    /\ task' = [task EXCEPT ![t].pc = "done", ![t].nDec = @ + 1]
    /\ UNCHANGED <<reg, qreg>>

\* the caller has its result and goes on
Return(t) ==
    /\ task[t].pc = "done"
    /\ task' = [task EXCEPT ![t] = IdleTask]
    /\ UNCHANGED <<xacts, reg, qreg>>

\* ------------------------------------------------------ make-n-copies

mncNeverAlreadyRunning(res) == FALSE

\* renewBckMakeNCopies: "if !res.IsNew { res.Err = ... already running }"
mncAlreadyRunning(res) == ~res.isNew

\* renewBckMakeNCopies(t, bck, uuid, copies), under the registry lock
renewBckMakeNCopies(X, R, bck, prevId, in) ==
    LET r == renewBckXact(X, R, ActMakeNCopies, bck, NoUUID, prevId, in)
    IN  IF r.res.err THEN r
        ELSE IF mncAlreadyRunning(r.res)
        THEN [r EXCEPT !.res.err = TRUE]
        ELSE r

\* Run of xaction i is started once more
started(rs, i) ==
    [j \in DOMAIN rs \cup {i} |->
        IF j = i THEN (IF i \in DOMAIN rs THEN rs[i] + 1 ELSE 1) ELSE rs[j]]

\* renewMakeNCopies reaches a bucket with Mirror.Enabled in one of its Range
\* callbacks (op "renewMakeNCopies"), or RenewBckMakeNCopies is called
CallMakeNCopies(t, op, bck) ==
    /\ task[t].pc = "idle"
    /\ Len(xacts) + InFlight < MaxXacts
    /\ task' = [task EXCEPT ![t] =
                   [IdleTask EXCEPT !.pc = "mnc", !.op = op,
                                    !.kind = ActMakeNCopies, !.bck = bck]]
    /\ UNCHANGED <<xacts, reg, qreg, runs>>
    /\ UNCHANGED <<eraseVars, mptVars, authVars, dpqVars, walkVars, lruVars, invVars, addVars, poolVars>>

\* res := r.renewBckMakeNCopies(...), then "if res.Err == nil"
MakeNCopiesRenew(t) ==
    /\ task[t].pc = "mnc"
    /\ \E in \in HookInputs :
       \E prevId \in PrevChoices(xacts, reg, ActMakeNCopies, task[t].bck, NoUUID) :
          LET r == renewBckMakeNCopies(xacts, reg, task[t].bck, prevId, in)
          IN  /\ xacts' = r.xacts
              /\ reg' = r.reg
              /\ task' = [task EXCEPT ![t].res = r.res,
                                      ![t].delta = @ \cup RegDiff(reg, r.reg),
                                      ![t].pc = IF r.res.err THEN "done" ELSE "go"]
    /\ UNCHANGED <<qreg, runs>>
    /\ UNCHANGED <<eraseVars, mptVars, authVars, dpqVars, walkVars, lruVars, invVars, addVars, poolVars>>

\* xact := res.Entry.Get(); go xact.Run() -- renewMakeNCopies does it, and the
\* caller of RenewBckMakeNCopies when it got no error
MakeNCopiesGo(t) ==
    /\ task[t].pc = "go"
    /\ runs' = started(runs, task[t].res.entry)
    /\ task' = [task EXCEPT ![t].pc = "done"]
    /\ UNCHANGED <<xacts, reg, qreg>>
    /\ UNCHANGED <<eraseVars, mptVars, authVars, dpqVars, walkVars, lruVars, invVars, addVars, poolVars>>

MncOps == {"renewMakeNCopies", "RenewBckMakeNCopies"}

\* ------------------------------------------ renewals keyed by UUID

\* r.getXact(uuid): an entry of the registry with that UUID, or nil
getXact(X, R, uuid) ==
    IF {i \in R : X[i].uuid = uuid} = {}
    THEN {NoEntry}
    ELSE {i \in R : X[i].uuid = uuid}

\* r.entries.del(uuid): removes the entries with that UUID; an error, and
\* nothing removed, when one of them has not finished
del(X, R, uuid) ==
    IF \E i \in R : X[i].uuid = uuid /\ ~Finished(X[i])
    THEN [reg |-> R, err |-> TRUE]
    ELSE [reg |-> {i \in R : X[i].uuid # uuid}, err |-> FALSE]

\* RenewObjList(t, bck, uuid, msg) is called
CallRenewObjList(t, bck, uuid) ==
    /\ task[t].pc = "idle"
    /\ Len(xacts) + InFlight < MaxXacts
    /\ task' = [task EXCEPT ![t] =
                   [IdleTask EXCEPT !.pc = "ol_get", !.op = "renewObjList",
                                    !.kind = ActList, !.bck = bck, !.uuid = uuid]]
    /\ UNCHANGED <<xacts, reg, qreg>>

objListReuseAny(X, x) == x # NoEntry

\* renewObjList: "if xact == nil || xact.Finished()" renews; else the xaction
\* found is returned as it is
objListReuse(X, x) == x # NoEntry /\ ~Finished(X[x])

\* xact := r.getXact(uuid), and the test of what it found
ObjListGet(t) ==
    /\ task[t].pc = "ol_get"
    /\ \E x \in getXact(xacts, reg, task[t].uuid) :
          IF objListReuse(xacts, x)
          THEN task' = [task EXCEPT ![t].pc = "done", ![t].res = RenewRes(x, FALSE, FALSE)]
          ELSE task' = [task EXCEPT ![t].pc = "ol_renew"]
    /\ UNCHANGED <<xacts, reg, qreg>>

\* return r.renewBckXact(e, bck, uuid)
ObjListRenew(t) ==
    /\ task[t].pc = "ol_renew"
    /\ \E in \in HookInputs :
       \E prevId \in PrevChoices(xacts, reg, ActList, task[t].bck, task[t].uuid) :
          LET r == renewBckXact(xacts, reg, ActList, task[t].bck, task[t].uuid, prevId, in)
          IN  /\ xacts' = r.xacts
              /\ reg' = r.reg
              /\ task' = [task EXCEPT ![t].res = r.res, ![t].pc = "done",
                                      ![t].delta = @ \cup RegDiff(reg, r.reg)]
    /\ UNCHANGED qreg

\* RenewBckSummary(ctx, t, bck, msg) is called
CallRenewBckSummary(t, bck, uuid) ==
    /\ task[t].pc = "idle"
    /\ Len(xacts) + InFlight < MaxXacts
    /\ task' = [task EXCEPT ![t] =
                   [IdleTask EXCEPT !.pc = "sum_del", !.op = "renewBckSummary",
                                    !.kind = ActSummary, !.bck = bck, !.uuid = uuid]]
    /\ UNCHANGED <<xacts, reg, qreg>>

\* err := r.entries.del(msg.UUID), under r.entries.mtx
SummaryDel(t) ==
    /\ task[t].pc = "sum_del"
    /\ LET d == del(xacts, reg, task[t].uuid)
       IN  /\ reg' = d.reg
           /\ task' = [task EXCEPT ![t].delta = @ \cup RegDiff(reg, d.reg),
                                   ![t].pc = IF d.err THEN "done" ELSE "sum_start",
                                   ![t].res = IF d.err THEN RenewRes(NoEntry, TRUE, FALSE) ELSE @]
    /\ UNCHANGED <<xacts, qreg>>

\* e.Start(bck.Bck), and r.add(e) when it succeeds
SummaryStart(t) ==
    /\ task[t].pc = "sum_start"
    /\ \E startErr \in BOOLEAN :
          IF startErr
          THEN /\ task' = [task EXCEPT ![t].pc = "done", ![t].res = RenewRes(NoEntry, TRUE, FALSE)]
               /\ UNCHANGED <<xacts, reg>>
          ELSE LET a == add(xacts, reg, NewXact(ActSummary, task[t].bck, task[t].uuid))
               IN  /\ xacts' = a.xacts
                   /\ reg' = a.reg
                   /\ task' = [task EXCEPT ![t].pc = "done",
                                           ![t].res = RenewRes(Len(xacts) + 1, FALSE, TRUE),
                                           ![t].delta = @ \cup RegDiff(reg, a.reg)]
    /\ UNCHANGED qreg

\* RenewQuery(ctx, t, q, msg) is called
CallRenewQuery(t, bck, uuid) ==
    /\ task[t].pc = "idle"
    /\ Len(xacts) + InFlight < MaxXacts
    /\ task' = [task EXCEPT ![t] =
                   [IdleTask EXCEPT !.pc = "q_get", !.op = "RenewQuery",
                                    !.kind = ActQuery, !.bck = bck, !.uuid = uuid]]
    /\ UNCHANGED <<xacts, reg, qreg>>

\* query.Registry.Get(msg.UUID): one that is not aborted is returned, an
\* aborted one is deleted from the query registry
QueryGet(t) ==
    /\ task[t].pc = "q_get"
    /\ LET x == qreg[task[t].uuid]
       IN  IF x # NoEntry /\ xacts[x].st # Aborted
           THEN /\ task' = [task EXCEPT ![t].pc = "done", ![t].res = RenewRes(x, FALSE, FALSE)]
                /\ UNCHANGED qreg
           ELSE /\ task' = [task EXCEPT ![t].pc = "q_del"]
                /\ qreg' = [qreg EXCEPT ![task[t].uuid] = NoEntry]
    /\ UNCHANGED <<xacts, reg>>

\* err := r.entries.del(msg.UUID), under r.entries.mtx
QueryDel(t) ==
    /\ task[t].pc = "q_del"
    /\ LET d == del(xacts, reg, task[t].uuid)
       IN  /\ reg' = d.reg
           /\ task' = [task EXCEPT ![t].delta = @ \cup RegDiff(reg, d.reg),
                                   ![t].pc = IF d.err THEN "done" ELSE "q_renew",
                                   ![t].res = IF d.err THEN RenewRes(NoEntry, TRUE, FALSE) ELSE @]
    /\ UNCHANGED <<xacts, qreg>>

\* return r.renewBckXact(e, q.BckSource.Bck); a query that starts is put
\* in the query registry under its UUID
QueryRenew(t) ==
    /\ task[t].pc = "q_renew"
    /\ \E in \in HookInputs :
       \E prevId \in PrevChoices(xacts, reg, ActQuery, task[t].bck, NoUUID) :
          LET r == renewBckXact(xacts, reg, ActQuery, task[t].bck, task[t].uuid, prevId, in)
          IN  /\ xacts' = r.xacts
              /\ reg' = r.reg
              /\ qreg' = IF r.res.isNew
                         THEN [qreg EXCEPT ![task[t].uuid] = r.res.entry]
                         ELSE qreg
              /\ task' = [task EXCEPT ![t].res = r.res, ![t].pc = "done",
                                      ![t].delta = @ \cup RegDiff(reg, r.reg)]

\* --------------------------------------------------- xaction life cycle

\* a running xaction completes its work
XactFinish(i) ==
    /\ xacts[i].st = Running
    /\ xacts' = [xacts EXCEPT ![i].st = FinishedSt]
    /\ UNCHANGED <<reg, qreg, task>>

\* a running xaction is aborted (Abort, or the housekeeper on idle timeout)
XactAbort(i) ==
    /\ xacts[i].st = Running
    /\ xacts' = [xacts EXCEPT ![i].st = Aborted]
    /\ UNCHANGED <<reg, qreg, task>>

\* ======================================================== mirror/merase.go

AllMpaths == {"m1", "m2"}
NoTime == 0
\* capacity of r.mpathChangeCh
MpathChCap == 1

\* eraser := &eraser{parent: r, mpathInfo: mpathInfo}; stopCh is nil until jog makes it
NewEraser(mp) ==
    [mp |-> mp, pc |-> "start", ch |-> "nil", buf |-> 0, left |-> NFiles, nStop |-> 0]

\* r.Finished()
XactFinished == etime # NoTime

stopNeverReturnsEarly == FALSE

\* XactErase.stop: "if r.Finished() { return }"
stopReturnsEarly == XactFinished

\* the erasers a loop over r.erasers stops: all of the map
stopTargets(m) == DOMAIN m

\* eraser.stop: j.stopCh <- struct{}{}; close(j.stopCh)
\*   a send on a nil channel blocks forever, a send on a closed one panics
stopOutcome(e) ==
    IF e.ch = "nil" THEN "block"
    ELSE IF e.ch = "closed" THEN "panic"
    ELSE IF e.buf = 1 THEN "block"
    ELSE "ok"

eraserStop(e) == [e EXCEPT !.buf = 1, !.ch = "closed", !.nStop = @ + 1]

\* eraser.yieldTerm: receives from stopCh when it can; returns nil either way
yieldTerm(e) == [err |-> FALSE, buf |-> 0]

\* eraser.walk on the next file: yieldTerm, then Fill and DelCopy;
\* filepath.Walk, and with it jog, ends on an error and after the last file
walk(e) ==
    LET y == yieldTerm(e)
    IN  IF y.err
        THEN [e EXCEPT !.pc = "done", !.buf = y.buf]
        ELSE [e EXCEPT !.buf = y.buf,
                       !.left = @ - 1,
                       !.pc = IF e.left = 1 THEN "done" ELSE "walk"]

\* ------------------------------------------------------------ fs events

\* a mountpath is added, removed, enabled or disabled; the fs layer then calls
\* Req*Mountpath of the path runner, which sends on r.mpathChangeCh
MountpathEvent(newSet) ==
    /\ notified < MaxNotify
    /\ \/ newSet = mpaths
       \/ \E mp \in AllMpaths : newSet = mpaths \cup {mp} \/ newSet = mpaths \ {mp}
    /\ mpaths' = newSet
    /\ notified' = notified + 1
    /\ senders' = senders + 1
    /\ UNCHANGED <<mpathChangeCh, abortCh, etime, clock, ticker, runPc, runAfter, toStop,
                   availablePaths, runRes, emap, orphans>>
    /\ UNCHANGED <<regVars, mptVars, authVars, dpqVars, moreVars, lateAborts, lateStops>>

\* r.mpathChangeCh <- struct{}{} completes
ReqMountpathSend ==
    /\ senders > 0
    /\ mpathChangeCh < MpathChCap
    /\ mpathChangeCh' = mpathChangeCh + 1
    /\ senders' = senders - 1
    /\ UNCHANGED <<mpaths, notified, abortCh, etime, clock, ticker, runPc, runAfter, toStop,
                   availablePaths, runRes, emap, orphans>>
    /\ UNCHANGED <<regVars, mptVars, authVars, dpqVars, moreVars, lateAborts, lateStops>>

\* Run is between the receive of a notification and its return to the select
RestartInProgress == runAfter = "reread" /\ runPc \in {"stopAll", "reread", "init"}

\* Req{Add,Remove,Enable,Disable}Mountpath is called, for the first time or while
\* Run handles an earlier notification; the set of mountpaths stays as it is
ReqMountpath ==
    /\ notified < MaxBurst + 1
    /\ notified = 0 \/ RestartInProgress
    /\ notified' = notified + 1
    /\ senders' = senders + 1
    /\ UNCHANGED <<mpaths, mpathChangeCh, abortCh, etime, clock, ticker, runPc, runAfter,
                   toStop, availablePaths, runRes, emap, orphans>>
    /\ UNCHANGED <<regVars, mptVars, authVars, dpqVars, moreVars, lateAborts, lateStops>>

\* Stop(error) / Abort(): closes the abort channel; a second one is a no-op
Abort ==
    /\ XactFinished => lateAborts < MaxLate
    /\ abortCh' = "closed"
    /\ lateAborts' = IF XactFinished THEN lateAborts + 1 ELSE lateAborts
    /\ UNCHANGED <<mpaths, mpathChangeCh, senders, notified, etime, clock, ticker, runPc,
                   runAfter, toStop, availablePaths, runRes, emap, orphans>>
    /\ UNCHANGED <<regVars, mptVars, authVars, dpqVars, moreVars, lateStops>>

\* ------------------------------------------------------------------ Run

\* availablePaths, _ := fs.Mountpaths.Get(); r.erasers = make(...)
RunBegin ==
    /\ runPc = "start"
    /\ availablePaths' = mpaths
    /\ emap' = <<>>
    /\ runPc' = "init"
    /\ UNCHANGED <<mpaths, mpathChangeCh, senders, notified, abortCh, etime, clock, ticker,
                   runAfter, toStop, runRes, orphans>>
    /\ UNCHANGED <<regVars, mptVars, authVars, dpqVars, moreVars, lateAborts, lateStops>>

\* init: one eraser per mountpath of availablePaths, each with its goroutine
RunSpawn ==
    /\ runPc = "init"
    /\ emap' = [mp \in DOMAIN emap \cup availablePaths |->
                   IF mp \in availablePaths THEN NewEraser(mp) ELSE emap[mp]]
    /\ runPc' = "loop"
    /\ UNCHANGED <<mpaths, mpathChangeCh, senders, notified, abortCh, etime, clock, ticker,
                   runAfter, toStop, availablePaths, runRes, orphans>>
    /\ UNCHANGED <<regVars, mptVars, authVars, dpqVars, moreVars, lateAborts, lateStops>>

\* r.stop(), up to its loop over the erasers; then Run is at `after`
stopBegin(after) ==
    IF stopReturnsEarly
    THEN /\ runPc' = after
         /\ UNCHANGED <<etime, clock, ticker, toStop, runAfter>>
    ELSE /\ etime' = clock
         /\ clock' = clock + 1
         /\ ticker' = FALSE
         /\ toStop' = stopTargets(emap)
         /\ runAfter' = after
         /\ runPc' = "stopAll"

\* case <-r.ChanAbort(): r.stop(); return
RunAbortCase ==
    /\ runPc = "loop"
    /\ abortCh = "closed"
    /\ runRes' = "aborted"
    /\ stopBegin("done")
    /\ UNCHANGED <<mpaths, mpathChangeCh, senders, notified, abortCh, availablePaths,
                   emap, orphans>>
    /\ UNCHANGED <<regVars, mptVars, authVars, dpqVars, moreVars, lateAborts, lateStops>>

\* case <-r.mpathChangeCh: the loop over r.erasers begins
RunMpathChangeCase ==
    /\ runPc = "loop"
    /\ mpathChangeCh > 0
    /\ mpathChangeCh' = mpathChangeCh - 1
    /\ toStop' = stopTargets(emap)
    /\ runAfter' = "reread"
    /\ runPc' = "stopAll"
    /\ UNCHANGED <<mpaths, senders, notified, abortCh, etime, clock, ticker,
                   availablePaths, runRes, emap, orphans>>
    /\ UNCHANGED <<regVars, mptVars, authVars, dpqVars, moreVars, lateAborts, lateStops>>

\* eraser.stop() of the next eraser of the loop
RunStopEraser(mp) ==
    /\ runPc = "stopAll"
    /\ mp \in toStop
    /\ LET out == stopOutcome(emap[mp])
       IN  IF out = "ok"
           THEN /\ emap' = [emap EXCEPT ![mp] = eraserStop(@)]
                /\ toStop' = toStop \ {mp}
                /\ runPc' = runPc
           ELSE /\ runPc' = IF out = "panic" THEN "panic" ELSE "blocked"
                /\ UNCHANGED <<emap, toStop>>
    /\ UNCHANGED <<mpaths, mpathChangeCh, senders, notified, abortCh, etime, clock, ticker,
                   runAfter, availablePaths, runRes, orphans>>
    /\ UNCHANGED <<regVars, mptVars, authVars, dpqVars, moreVars, lateAborts, lateStops>>

\* the loop over r.erasers is over
RunStopDone ==
    /\ runPc = "stopAll"
    /\ toStop = {}
    /\ runPc' = runAfter
    /\ UNCHANGED <<mpaths, mpathChangeCh, senders, notified, abortCh, etime, clock, ticker,
                   runAfter, toStop, availablePaths, runRes, emap, orphans>>
    /\ UNCHANGED <<regVars, mptVars, authVars, dpqVars, moreVars, lateAborts, lateStops>>

\* the erasers of a map that is dropped: those still running go on by themselves
Orphaned(m) ==
    LET RECURSIVE bag(_)
        bag(K) == IF K = {} THEN EmptyBag
                  ELSE LET k == CHOOSE x \in K : TRUE
                       IN  IF m[k].pc = "done"
                           THEN bag(K \ {k})
                           ELSE bag(K \ {k}) (+) SetToBag({m[k]})
    IN  bag(DOMAIN m)

\* availablePaths, _ = fs.Mountpaths.Get(); a new erasers map; with no
\* mountpath r.stop() and return, else goto init
RunReread ==
    /\ runPc = "reread"
    /\ availablePaths' = mpaths
    /\ emap' = <<>>
    /\ orphans' = orphans (+) Orphaned(emap)
    /\ IF mpaths = {}
       THEN /\ runRes' = "no mountpaths"
            /\ IF stopReturnsEarly
               THEN /\ runPc' = "done"
                    /\ UNCHANGED <<etime, clock, ticker, toStop, runAfter>>
               ELSE /\ etime' = clock
                    /\ clock' = clock + 1
                    /\ ticker' = FALSE
                    /\ toStop' = stopTargets(<<>>)
                    /\ runAfter' = "done"
                    /\ runPc' = "stopAll"
       ELSE /\ runPc' = "init"
            /\ UNCHANGED <<etime, clock, ticker, toStop, runAfter, runRes>>
    /\ UNCHANGED <<mpaths, mpathChangeCh, senders, notified, abortCh>>
    /\ UNCHANGED <<regVars, mptVars, authVars, dpqVars, moreVars, lateAborts, lateStops>>

\* r.stop() called once more, after Run has returned
StopAgain ==
    /\ runPc = "done"
    /\ lateStops < MaxLate
    /\ lateStops' = lateStops + 1
    /\ stopBegin("done")
    /\ UNCHANGED <<mpaths, mpathChangeCh, senders, notified, abortCh, availablePaths,
                   runRes, emap, orphans>>
    /\ UNCHANGED <<regVars, mptVars, authVars, dpqVars, moreVars, lateAborts>>

\* ------------------------------------------------------------- erasers

\* jog: j.stopCh = make(chan struct{}, 1)
JogStart(mp) ==
    /\ emap[mp].pc = "start"
    /\ emap' = [emap EXCEPT ![mp].pc = "walk", ![mp].ch = "open"]
    /\ UNCHANGED <<mpaths, mpathChangeCh, senders, notified, abortCh, etime, clock, ticker,
                   runPc, runAfter, toStop, availablePaths, runRes, orphans>>
    /\ UNCHANGED <<regVars, mptVars, authVars, dpqVars, moreVars, lateAborts, lateStops>>

\* an eraser of the current map walks its next file
JogWalk(mp) ==
    /\ emap[mp].pc = "walk"
    /\ emap' = [emap EXCEPT ![mp] = walk(@)]
    /\ UNCHANGED <<mpaths, mpathChangeCh, senders, notified, abortCh, etime, clock, ticker,
                   runPc, runAfter, toStop, availablePaths, runRes, orphans>>
    /\ UNCHANGED <<regVars, mptVars, authVars, dpqVars, moreVars, lateAborts, lateStops>>

\* an eraser of a dropped map walks its next file
OrphanWalk(e) ==
    /\ e.pc = "walk"
    /\ orphans' = IF walk(e).pc = "done"
                  THEN orphans (-) SetToBag({e})
                  ELSE (orphans (-) SetToBag({e})) (+) SetToBag({walk(e)})
    /\ UNCHANGED <<mpaths, mpathChangeCh, senders, notified, abortCh, etime, clock, ticker,
                   runPc, runAfter, toStop, availablePaths, runRes, emap>>
    /\ UNCHANGED <<regVars, mptVars, authVars, dpqVars, moreVars, lateAborts, lateStops>>

InitErase ==
    /\ mpaths = AllMpaths
    /\ mpathChangeCh = 0
    /\ senders = 0
    /\ notified = 0
    /\ abortCh = "open"
    /\ etime = NoTime
    /\ clock = 1
    /\ ticker = TRUE
    /\ runPc = "start"
    /\ runAfter = ""
    /\ toStop = {}
    /\ availablePaths = {}
    /\ runRes = ""
    /\ emap = <<>>
    /\ orphans = EmptyBag
    /\ lateAborts = 0
    /\ lateStops = 0

NextErase ==
    \/ \E newSet \in SUBSET AllMpaths : MountpathEvent(newSet)
    \/ ReqMountpathSend
    \/ Abort
    \/ RunBegin
    \/ RunSpawn
    \/ RunAbortCase
    \/ RunMpathChangeCase
    \/ \E mp \in DOMAIN emap : RunStopEraser(mp)
    \/ RunStopDone
    \/ RunReread
    \/ StopAgain
    \/ \E mp \in DOMAIN emap : JogStart(mp)
    \/ \E mp \in DOMAIN emap : JogWalk(mp)
    \/ \E e \in BagToSet(orphans) : OrphanWalk(e)

\* notifications that arrive while Run restarts its erasers
NextCoalesce ==
    \/ ReqMountpath
    \/ ReqMountpathSend
    \/ RunBegin
    \/ RunSpawn
    \/ RunMpathChangeCase
    \/ \E mp \in DOMAIN emap : RunStopEraser(mp)
    \/ RunStopDone
    \/ RunReread
    \/ \E mp \in DOMAIN emap : JogStart(mp)
    \/ \E mp \in DOMAIN emap : JogWalk(mp)
    \/ \E e \in BagToSet(orphans) : OrphanWalk(e)

\* an erase xaction that nobody aborts: Run, its erasers and the fs events
NextEraseRun ==
    \/ \E newSet \in SUBSET AllMpaths : MountpathEvent(newSet)
    \/ ReqMountpathSend
    \/ RunBegin
    \/ RunSpawn
    \/ RunMpathChangeCase
    \/ \E mp \in DOMAIN emap : RunStopEraser(mp)
    \/ RunStopDone
    \/ RunReread
    \/ \E mp \in DOMAIN emap : JogStart(mp)
    \/ \E mp \in DOMAIN emap : JogWalk(mp)
    \/ \E e \in BagToSet(orphans) : OrphanWalk(e)

\* ------------------------------------------------ eraser.walk, one file

\* what walk is called with (err, osfi), what Fill finds for the file (errstr,
\* Doesnotexist, Misplaced, the replicas of the object, primary included), whether
\* DelCopy will fail, and parent.Mirror.Copies; had is the replicas at the call
WalkLOMs ==
    [err : BOOLEAN, isDir : BOOLEAN, fillErr : BOOLEAN, Doesnotexist : BOOLEAN,
     Misplaced : BOOLEAN, copies : 1..MaxCopies, had : 1..MaxCopies,
     delErr : BOOLEAN, Copies : 0..MaxCopies]

NoLOM ==
    [err |-> FALSE, isDir |-> FALSE, fillErr |-> FALSE, Doesnotexist |-> FALSE,
     Misplaced |-> FALSE, copies |-> 1, had |-> 1, delErr |-> FALSE, Copies |-> 0]

\* lom.HasCopy()
HasCopy(l) == l.copies > 1

\* lom.DelCopy(): removes a copy of the object, or fails and removes none
DelCopy(l) == IF l.delErr THEN l ELSE [l EXCEPT !.copies = @ - 1]

\* "if err != nil { return err }", "if osfi.Mode().IsDir() { return nil }"
walkReturnsEarly(l) == l.err \/ l.isDir

\* errstr != "" || lom.Doesnotexist
walkFillFails(l) == l.fillErr \/ l.Doesnotexist

walkNeverSkipsMisplaced(l) == FALSE

\* "if lom.Misplaced { return nil }"
walkSkipsMisplaced(l) == l.Misplaced

\* walk up to yieldTerm
WalkCall ==
    /\ walkPc = "call"
    /\ IF walkReturnsEarly(lom)
       THEN /\ walkPc' = "done"
            /\ walkRes' = IF lom.err THEN "err" ELSE "nil"
       ELSE IF yieldTerm(NewEraser("m1")).err
       THEN /\ walkPc' = "done"
            /\ walkRes' = "err"
       ELSE /\ walkPc' = "fill"
            /\ walkRes' = walkRes
    /\ UNCHANGED <<lom, nlock>>
    /\ UNCHANGED <<baseVars, lruVars, invVars, mncVars, addVars, poolVars>>

\* lom.Fill(LomFstat|LomCopy), the misplaced check and lom.HasCopy()
WalkFill ==
    /\ walkPc = "fill"
    /\ IF walkFillFails(lom) \/ walkSkipsMisplaced(lom) \/ ~HasCopy(lom)
       THEN /\ walkPc' = "done"
            /\ walkRes' = "nil"
       ELSE /\ walkPc' = "delcopy"
            /\ walkRes' = walkRes
    /\ UNCHANGED <<lom, nlock>>
    /\ UNCHANGED <<baseVars, lruVars, invVars, mncVars, addVars, poolVars>>

\* lom.DelCopy() and walk's return
WalkDelCopy ==
    /\ walkPc = "delcopy"
    /\ lom' = DelCopy(lom)
    /\ walkPc' = "done"
    /\ walkRes' = IF lom.delErr THEN "err" ELSE "nil"
    /\ UNCHANGED nlock
    /\ UNCHANGED <<baseVars, lruVars, invVars, mncVars, addVars, poolVars>>

\* another goroutine (a PUT, a GET with atime update) takes the exclusive
\* name-lock of the object's key, and releases it
NameLock ==
    /\ nlock = ""
    /\ nlock' = "other"
    /\ UNCHANGED <<lom, walkPc, walkRes>>
    /\ UNCHANGED <<baseVars, lruVars, invVars, mncVars, addVars, poolVars>>

NameUnlock ==
    /\ nlock = "other"
    /\ nlock' = ""
    /\ UNCHANGED <<lom, walkPc, walkRes>>
    /\ UNCHANGED <<baseVars, lruVars, invVars, mncVars, addVars, poolVars>>

InitWalkIdle ==
    /\ lom = NoLOM
    /\ walkPc = "idle"
    /\ walkRes = ""
    /\ nlock = ""

\* any file, walked once
InitWalk ==
    /\ lom \in {l \in WalkLOMs : l.had = l.copies}
    /\ walkPc = "call"
    /\ walkRes = ""
    /\ nlock = ""

NextWalk ==
    \/ WalkCall
    \/ WalkFill
    \/ WalkDelCopy
    \/ NameLock
    \/ NameUnlock

\* ------------------------------------------------- the bucket inventory

\* times in seconds; "4*time.Second" and "23*time.Hour"
InvTolerance == 4
InvKeep == 82800
InvTimes == {1, 4, 5, 90000}
InvSizes == {1, 2}
ZeroTime == 0

NoFile == [exists |-> FALSE, mtime |-> ZeroTime, size |-> 0]
File(mtime, size) == [exists |-> TRUE, mtime |-> mtime, size |-> size]

sinceInvSigned(t1, t2) == t1 - t2

\* sinceInv(t1, t2)
sinceInv(t1, t2) == IF t1 > t2 THEN t1 - t2 ELSE t2 - t1

\* _usableInv(latest, ctx): os.Stat of the cached file, then the comparison
usableInv(latest, finfo) ==
    IF ~finfo.exists THEN FALSE
    ELSE sinceInv(finfo.mtime, latest) < InvTolerance

\* the csv object getInventory picks from the listing: the latest
latestCsv(contents) ==
    IF contents = {} THEN ZeroTime
    ELSE CHOOSE t \in contents : \A u \in contents : u <= t

\* step 3: the listed objects that the cleanup tries to delete
olderInv(contents, csvMtime) ==
    {t \in contents : ~(t = csvMtime \/ csvMtime - t < InvKeep)}

removeFileNever(exists, fails) == exists

\* cos.RemoveFile(wfqn): whether the file is there afterwards
removeFile(exists, fails) == exists /\ fails

NoInv ==
    [pc |-> "idle", n |-> 0, csv |-> ZeroTime, Size |-> 0, res |-> "", err |-> FALSE,
     created |-> FALSE, rmErr |-> FALSE, prevCsv |-> ZeroTime]

\* getInventory is called, with a new ctx
InvCall ==
    /\ inv.pc \in {"idle", "done"}
    /\ inv.n < MaxInvCalls
    /\ inv' = [NoInv EXCEPT !.pc = "list", !.n = inv.n + 1,
                            !.prevCsv = IF inv.res = "fetched" THEN inv.csv ELSE ZeroTime]
    /\ UNCHANGED <<upstream, cache, wfqn>>
    /\ UNCHANGED <<baseVars, walkVars, lruVars, mncVars, addVars, poolVars>>

\* steps 1 and 2: ListObjectsV2, the latest csv and manifest, getManifest
InvList ==
    /\ inv.pc = "list"
    /\ \E fails \in BOOLEAN :
          inv' = IF fails
                 THEN [inv EXCEPT !.pc = "done", !.res = "errList"]
                 ELSE IF latestCsv(upstream) = ZeroTime
                 THEN [inv EXCEPT !.pc = "done", !.res = "notFound"]
                 ELSE [inv EXCEPT !.pc = "usable", !.csv = latestCsv(upstream)]
    /\ UNCHANGED <<upstream, cache, wfqn>>
    /\ UNCHANGED <<baseVars, walkVars, lruVars, mncVars, addVars, poolVars>>

\* "if _usableInv(csv.mtime, ctx) { return 0, nil }"; ctx.Size is zero before, so
\* that the assertion on it holds
InvUsable ==
    /\ inv.pc = "usable"
    /\ inv' = IF usableInv(inv.csv, cache)
              THEN [inv EXCEPT !.pc = "done", !.res = "reused", !.Size = cache.size]
              ELSE [inv EXCEPT !.pc = "cleanup"]
    /\ UNCHANGED <<upstream, cache, wfqn>>
    /\ UNCHANGED <<baseVars, walkVars, lruVars, mncVars, addVars, poolVars>>

\* step 3: DeleteObject of the older inventories; a failure is logged
InvCleanup ==
    /\ inv.pc = "cleanup"
    /\ \E kept \in SUBSET olderInv(upstream, inv.csv) :
          upstream' = (upstream \ olderInv(upstream, inv.csv)) \cup kept
    /\ inv' = [inv EXCEPT !.pc = "get"]
    /\ UNCHANGED <<cache, wfqn>>
    /\ UNCHANGED <<baseVars, walkVars, lruVars, mncVars, addVars, poolVars>>

\* step 4: GetObject and gzip.NewReader
InvGet ==
    /\ inv.pc = "get"
    /\ \E fails \in BOOLEAN :
          inv' = IF fails
                 THEN [inv EXCEPT !.pc = "done", !.res = "errGet"]
                 ELSE [inv EXCEPT !.pc = "create"]
    /\ UNCHANGED <<upstream, cache, wfqn>>
    /\ UNCHANGED <<baseVars, walkVars, lruVars, mncVars, addVars, poolVars>>

\* wfqn := fs.CSM.Gen(...); ctx.Lom.CreateFile(wfqn)
InvCreate ==
    /\ inv.pc = "create"
    /\ \E fails \in BOOLEAN :
          IF fails
          THEN /\ inv' = [inv EXCEPT !.pc = "done", !.res = "errCreate"]
               /\ wfqn' = wfqn
          ELSE /\ inv' = [inv EXCEPT !.pc = "copy", !.created = TRUE]
               /\ wfqn' = TRUE
    /\ UNCHANGED <<upstream, cache>>
    /\ UNCHANGED <<baseVars, walkVars, lruVars, mncVars, addVars, poolVars>>

\* ctx.Size, err = cos.CopyBuffer(wfh, gzr, buf), and the closes
InvCopy ==
    /\ inv.pc = "copy"
    /\ \E fails \in BOOLEAN, n \in InvSizes :
          inv' = [inv EXCEPT !.pc = "final", !.Size = n, !.err = fails]
    /\ UNCHANGED <<upstream, cache, wfqn>>
    /\ UNCHANGED <<baseVars, walkVars, lruVars, mncVars, addVars, poolVars>>

\* step 5: RenameFrom(wfqn), os.Chtimes(FQN, csv.mtime, csv.mtime); on an error
\* of the copy or of these, cos.RemoveFile(wfqn), whose own failure is logged
InvFinal ==
    /\ inv.pc = "final"
    /\ \E renameErr, chtimesErr, rmFails \in BOOLEAN, now \in InvTimes :
          LET renamed   == ~inv.err /\ ~renameErr
              chtimed   == renamed /\ ~chtimesErr
              wfLeft    == wfqn /\ ~renamed
          IN  /\ cache' = IF chtimed THEN File(inv.csv, inv.Size)
                          ELSE IF renamed THEN File(now, inv.Size)
                          ELSE cache
              /\ IF chtimed
                 THEN /\ wfqn' = wfLeft
                      /\ inv' = [inv EXCEPT !.pc = "done", !.res = "fetched"]
                 ELSE /\ wfqn' = removeFile(wfLeft, rmFails)
                      /\ inv' = [inv EXCEPT !.pc = "done", !.res = "errFinal",
                                            !.rmErr = wfLeft /\ rmFails]
    /\ UNCHANGED upstream
    /\ UNCHANGED <<baseVars, walkVars, lruVars, mncVars, addVars, poolVars>>

\* S3 delivers a new inventory, later than those there are
UpstreamPut(t) ==
    /\ inv.pc \in {"idle", "done"}
    /\ t > latestCsv(upstream)
    /\ upstream' = upstream \cup {t}
    /\ UNCHANGED <<cache, wfqn, inv>>
    /\ UNCHANGED <<baseVars, walkVars, lruVars, mncVars, addVars, poolVars>>

InitInvIdle ==
    /\ upstream = {}
    /\ cache = NoFile
    /\ wfqn = FALSE
    /\ inv = NoInv

\* any inventories upstream, any cached file or none
InitInv ==
    /\ upstream \in SUBSET InvTimes
    /\ cache \in {NoFile} \cup {File(t, 1) : t \in InvTimes}
    /\ wfqn = FALSE
    /\ inv = NoInv

NextInv ==
    \/ InvCall
    \/ InvList
    \/ InvUsable
    \/ InvCleanup
    \/ InvGet
    \/ InvCreate
    \/ InvCopy
    \/ InvFinal
    \/ \E t \in InvTimes : UpstreamPut(t)

\* ===================================================================== lru

\* fs.ObjectType, fs.WorkfileType and one more registered content type
ObjectType == "obj"
WorkfileType == "work"
LruContentTypes == {ObjectType, WorkfileType, "ec"}
LruMpaths == {"m1", "m2"}

\* lctx := newlru(ini, mpathInfo, contentType, contentResolver, config, bislocal)
newlru(mpathInfo, contentType, bislocal) ==
    [mpathInfo |-> mpathInfo, contentType |-> contentType, bislocal |-> bislocal]

lruWaitNeverBlocks(wg) == TRUE

\* wg.Wait() returns
lruWaitReturns(wg) == wg = 0

\* "if !contentResolver.PermToEvict() { continue }" and the content types LRU
\* does not support
lruSkips(contentType) ==
    \/ ~evictable[contentType]
    \/ contentType # WorkfileType /\ contentType # ObjectType

\* for contentType, contentResolver := range fs.CSM.RegisteredContentTypes
\* (a map: any order), up to the first loop over the mountpaths
LruRange ==
    /\ lru.pc = "range"
    /\ IF lru.types = {}
       THEN lru' = [lru EXCEPT !.pc = "done"]
       ELSE \E contentType \in lru.types :
               lru' = IF lruSkips(contentType)
                      THEN [lru EXCEPT !.types = @ \ {contentType}]
                      ELSE [lru EXCEPT !.types = @ \ {contentType},
                                       !.contentType = contentType,
                                       !.paths = LruMpaths,
                                       !.pc = "local"]
    /\ UNCHANGED <<evictable, joggers>>
    /\ UNCHANGED <<baseVars, walkVars, invVars, mncVars, addVars, poolVars>>

\* one turn of a loop over availablePaths: newlru, wg.Add(1), go lctx.jog(wg)
LruSpawn(mpathInfo) ==
    /\ lru.pc \in {"local", "cloud"}
    /\ mpathInfo \in lru.paths
    /\ joggers' = [j \in DOMAIN joggers
                         \cup {newlru(mpathInfo, lru.contentType, lru.pc = "local")} |->
                      IF j \in DOMAIN joggers THEN joggers[j] ELSE "run"]
    /\ lru' = [lru EXCEPT !.paths = @ \ {mpathInfo}, !.wg = @ + 1]
    /\ UNCHANGED evictable
    /\ UNCHANGED <<baseVars, walkVars, invVars, mncVars, addVars, poolVars>>

\* wg.Wait() after a loop over availablePaths
LruWait ==
    /\ lru.pc \in {"local", "cloud"}
    /\ lru.paths = {}
    /\ lruWaitReturns(lru.wg)
    /\ lru' = IF lru.pc = "local"
              THEN [lru EXCEPT !.pc = "cloud", !.paths = LruMpaths]
              ELSE [lru EXCEPT !.pc = "range"]
    /\ UNCHANGED <<evictable, joggers>>
    /\ UNCHANGED <<baseVars, walkVars, invVars, mncVars, addVars, poolVars>>

\* lctx.jog(wg) ends: wg.Done()
LruJogDone(j) ==
    /\ joggers[j] = "run"
    /\ joggers' = [joggers EXCEPT ![j] = "done"]
    /\ lru' = [lru EXCEPT !.wg = @ - 1]
    /\ UNCHANGED evictable
    /\ UNCHANGED <<baseVars, walkVars, invVars, mncVars, addVars, poolVars>>

NoLru ==
    [pc |-> "idle", types |-> {}, contentType |-> "", paths |-> {}, wg |-> 0, aborted |-> FALSE]

InitLruIdle ==
    /\ evictable = [t \in LruContentTypes |-> FALSE]
    /\ lru = NoLru
    /\ joggers = <<>>

\* InitAndRun is called, with any content resolvers
InitLru ==
    /\ evictable \in [LruContentTypes -> BOOLEAN]
    /\ lru = [NoLru EXCEPT !.pc = "range", !.types = LruContentTypes]
    /\ joggers = <<>>

NextLru ==
    \/ LruRange
    \/ \E mpathInfo \in LruMpaths : LruSpawn(mpathInfo)
    \/ LruWait
    \/ \E j \in DOMAIN joggers : LruJogDone(j)

\* the LRU xaction is aborted while InitAndRun runs
LruAbort ==
    /\ lru.pc \notin {"idle", "done"}
    /\ ~lru.aborted
    /\ lru' = [lru EXCEPT !.aborted = TRUE]
    /\ UNCHANGED <<evictable, joggers>>
    /\ UNCHANGED <<baseVars, walkVars, invVars, mncVars, addVars, poolVars>>

NextLruAbort ==
    \/ LruRange
    \/ \E mpathInfo \in LruMpaths : LruSpawn(mpathInfo)
    \/ LruWait
    \/ \E j \in DOMAIN joggers : LruJogDone(j)
    \/ LruAbort

\* ============================================================ ais/s3/mpt.go

UploadIDs == {"id1", "id2"}
ObjNames == {"o1"}
ObjFQNs == {"f1"}
PartNums == 1..MaxPartNum
PartSizes == {1, 2}
PartMD5s == {"e1"}

\* MptPart{MD5, FQN, Size, Num}
MptPart(md5, fqn, size, num) == [md5 |-> md5, fqn |-> fqn, size |-> size, num |-> num]

\* the workfile a target writes for its k-th part of an upload
WorkFQN(id, k) == <<id, k>>

\* &mpt{bckName, objName, parts: make([]*MptPart, 0, iniCapParts), ctime: time.Now()}
NewMpt(bckName, objName, now) ==
    [bckName |-> bckName, objName |-> objName, parts |-> <<>>, ctime |-> now]

\* the attributes of a part that xattr keeps: the (*) fields of MptPart
XattrOf(parts) ==
    [i \in 1..Len(parts) |-> [md5 |-> parts[i].md5, size |-> parts[i].size, num |-> parts[i].num]]

\* upload.parts = append(upload.parts, npart)
appendPart(parts, npart) == Append(parts, npart)

\* upload.getPart(num): the part of the list with that number, or nil
NoPart == <<>>

getPart(parts, num) ==
    IF \E i \in 1..Len(parts) : parts[i].num = num
    THEN parts[CHOOSE i \in 1..Len(parts) :
                   /\ parts[i].num = num
                   /\ \A j \in 1..(i - 1) : parts[j].num # num]
    ELSE NoPart

\* what a call on the registry returns
MptRes(out, err, parts) == [out |-> out, err |-> err, parts |-> parts]
NoMptRes == MptRes("", FALSE, <<>>)

\* the registry and the disk as a call found them
Snapshot == [up |-> up, workfiles |-> workfiles, xattr |-> xattr]
NoSnapshot == [up |-> <<>>, workfiles |-> {}, xattr |-> <<>>]

\* what ListUploads returns: ListMptUploadsResult{Bucket, Uploads, IsTruncated}
NoList == [Bucket |-> "", Uploads |-> <<>>, IsTruncated |-> FALSE]

\* AddPart's result
NoAdd == [id |-> "", fqn |-> <<>>, err |-> FALSE]

IdleCall ==
    [pc |-> "idle", op |-> "", id |-> "", fqn |-> "", aborted |-> FALSE, req |-> <<>>,
     dbg |-> FALSE, res |-> NoMptRes, found |-> <<>>, existed |-> FALSE, pre |-> NoSnapshot,
     size |-> 0, bck |-> "", marker |-> "", max |-> 0, list |-> NoList]

\* a lock that excludes nobody
MuNeverHeld == mcall.pc # "done"

\* nobody holds mu, and no call is at the instant of its return
MuFree == mu = "" /\ mcall.pc # "done"

\* InitUpload(id, bckName, objName), under mu.Lock()
InitUpload(id, bckName, objName) ==
    /\ MuFree
    /\ mclock < MaxInits
    /\ up' = [i \in DOMAIN up \cup {id} |-> IF i = id THEN NewMpt(bckName, objName, mclock) ELSE up[i]]
    /\ mclock' = mclock + 1
    /\ UNCHANGED <<workfiles, xattr, nAdds, mu, mcall>>
    /\ UNCHANGED <<regVars, eraseVars, authVars, dpqVars, moreVars>>

\* a target saves the part to a workfile, then AddPart(id, npart), under mu.Lock();
\* AddPart on an unknown id returns an error and registers nothing
AddPart(id, md5, size, num) ==
    /\ MuFree
    /\ nAdds < MaxAdds
    /\ nAdds' = nAdds + 1
    /\ LET fqn == WorkFQN(id, nAdds + 1)
       IN  /\ workfiles' = workfiles \cup {fqn}
           /\ IF id \notin DOMAIN up
              THEN up' = up
              ELSE up' = [up EXCEPT ![id].parts = appendPart(@, MptPart(md5, fqn, size, num))]
           /\ added' = [id |-> id, fqn |-> fqn, err |-> id \notin DOMAIN up]
    /\ UNCHANGED <<xattr, mclock, mu, mcall>>
    /\ UNCHANGED <<regVars, eraseVars, authVars, dpqVars, walkVars, lruVars, invVars, mncVars, poolVars>>

\* ------------------------------------------------------- FinishUpload

\* FinishUpload(id, fqn, aborted) is called
CallFinishUpload(id, fqn, aborted) ==
    /\ mcall.pc = "idle"
    /\ mcall' = [IdleCall EXCEPT !.pc = "fin_lock", !.op = "FinishUpload",
                                 !.id = id, !.fqn = fqn, !.aborted = aborted]
    /\ UNCHANGED <<up, workfiles, xattr, mclock, nAdds, mu>>
    /\ UNCHANGED <<regVars, eraseVars, authVars, dpqVars, moreVars>>

finishMissingNeverOk(aborted) == FALSE

\* an unknown id: debug.AssertMsg(aborted, ...) and return
finishMissingOk(aborted) == aborted

finishStoresXattrAlways(aborted) == TRUE
finishStoresXattrNever(aborted) == FALSE

\* "if !aborted { err := storeMptXattr(fqn, upload) ... }"
finishStoresXattr(aborted) == ~aborted

\* mu.Lock(); upload, ok := up[id]; an unknown id unlocks and returns
FinLock ==
    /\ mcall.pc = "fin_lock"
    /\ mu = ""
    /\ IF mcall.id \notin DOMAIN up
       THEN /\ mcall' = [mcall EXCEPT !.pc = "done", !.pre = Snapshot,
                            !.res = MptRes(IF finishMissingOk(mcall.aborted) THEN "ok" ELSE "assert",
                                           FALSE, <<>>)]
            /\ mu' = mu
       ELSE /\ mcall' = [mcall EXCEPT !.pc = "fin_store", !.pre = Snapshot, !.existed = TRUE,
                                      !.found = up[mcall.id].parts]
            /\ mu' = "w"
    /\ UNCHANGED <<up, workfiles, xattr, mclock, nAdds>>
    /\ UNCHANGED <<regVars, eraseVars, authVars, dpqVars, moreVars>>

\* storeMptXattr(fqn, upload): the xattr of fqn now holds the parts' (*) attributes
storeMptXattr(X, fqn, parts) ==
    [f \in DOMAIN X \cup {fqn} |-> IF f = fqn THEN XattrOf(parts) ELSE X[f]]

partFilesButLast(parts) == {parts[i].fqn : i \in 1..(Len(parts) - 1)}

\* the workfiles the loop over upload.parts removes: part.FQN of every part
partFiles(parts) == {parts[i].fqn : i \in 1..Len(parts)}

\* storeMptXattr(fqn, upload), when the upload was not aborted
FinStore ==
    /\ mcall.pc = "fin_store"
    /\ xattr' = IF finishStoresXattr(mcall.aborted)
                THEN storeMptXattr(xattr, mcall.fqn, up[mcall.id].parts)
                ELSE xattr
    /\ mcall' = [mcall EXCEPT !.pc = "fin_unlink"]
    /\ UNCHANGED <<up, workfiles, mclock, nAdds, mu>>
    /\ UNCHANGED <<regVars, eraseVars, authVars, dpqVars, moreVars>>

\* for _, part := range upload.parts { _ = os.RemoveAll(part.FQN) }
FinUnlink ==
    /\ mcall.pc = "fin_unlink"
    /\ workfiles' = workfiles \ partFiles(up[mcall.id].parts)
    /\ mcall' = [mcall EXCEPT !.pc = "fin_delete"]
    /\ UNCHANGED <<up, xattr, mclock, nAdds, mu>>
    /\ UNCHANGED <<regVars, eraseVars, authVars, dpqVars, moreVars>>

\* delete(up, id); mu.Unlock()
FinDelete ==
    /\ mcall.pc = "fin_delete"
    /\ up' = [i \in DOMAIN up \ {mcall.id} |-> up[i]]
    /\ mu' = ""
    /\ mcall' = [mcall EXCEPT !.pc = "done", !.res = MptRes("ok", FALSE, <<>>)]
    /\ UNCHANGED <<workfiles, xattr, mclock, nAdds>>
    /\ UNCHANGED <<regVars, eraseVars, authVars, dpqVars, moreVars>>

\* UploadExists(id)
UploadExists(id) == id \in DOMAIN up

\* ---------------------------------------------------------- ListParts

\* ListParts(id, lom): the parts of the active upload, else those of the
\* xattr of lom.FQN; PartInfo{ETag, PartNumber, Size} in the order of mpt.parts
ListParts(id, fqn) ==
    LET src == IF id \in DOMAIN up THEN XattrOf(up[id].parts)
               ELSE IF fqn \in DOMAIN xattr THEN xattr[fqn]
               ELSE <<>>
    IN  [i \in 1..Len(src) |-> [etag |-> src[i].md5, partNumber |-> src[i].num, size |-> src[i].size]]

\* ListParts(id, lom) is called, lom being the object at fqn
CallListParts(id, fqn) ==
    /\ mcall.pc = "idle"
    /\ mcall' = [IdleCall EXCEPT !.pc = "lp_lock", !.op = "ListParts", !.id = id, !.fqn = fqn]
    /\ UNCHANGED <<up, workfiles, xattr, mclock, nAdds, mu>>
    /\ UNCHANGED <<regVars, eraseVars, authVars, dpqVars, moreVars>>

\* mu.RLock(); mpt, err := _getup(id); an active upload is listed at once
LpLock ==
    /\ mcall.pc = "lp_lock"
    /\ mu = ""
    /\ IF UploadExists(mcall.id)
       THEN /\ mcall' = [mcall EXCEPT !.pc = "done", !.pre = Snapshot, !.existed = TRUE,
                            !.res = MptRes("ok", FALSE, ListParts(mcall.id, mcall.fqn))]
            /\ mu' = mu
       ELSE /\ mcall' = [mcall EXCEPT !.pc = "lp_load", !.pre = Snapshot]
            /\ mu' = "r"
    /\ UNCHANGED <<up, workfiles, xattr, mclock, nAdds>>
    /\ UNCHANGED <<regVars, eraseVars, authVars, dpqVars, moreVars>>

\* mpt, err = LoadMptXattr(lom.FQN): nil, err without xattr; mu.RUnlock()
LpLoad ==
    /\ mcall.pc = "lp_load"
    /\ mcall' = [mcall EXCEPT !.pc = "done",
                    !.res = IF mcall.fqn \in DOMAIN xattr
                            THEN MptRes("ok", FALSE, ListParts(mcall.id, mcall.fqn))
                            ELSE MptRes("", TRUE, <<>>)]
    /\ mu' = ""
    /\ UNCHANGED <<up, workfiles, xattr, mclock, nAdds>>
    /\ UNCHANGED <<regVars, eraseVars, authVars, dpqVars, moreVars>>

\* --------------------------------------------------------- CheckParts

\* the requests of a client: lists of part numbers
PartReqs == UNION {[1..n -> PartNums] : n \in 0..MaxReq}

\* the part number before req[i], as the loop keeps it in prev
prevOf(req, i) == IF i = 1 THEN -1 ELSE req[i - 1]

checkPartsAssertAlways(req, i, dbg) == ~(req[i] > prevOf(req, i))

\* debug.Assert(part.PartNumber > prev): fails in a debug build only
checkPartsAssertFails(req, i, dbg) == dbg /\ ~(req[i] > prevOf(req, i))

\* CheckParts(id, parts) on the registry U; dbg: a debug build
CheckParts(U, id, req, dbg) ==
    IF id \notin DOMAIN U
    THEN MptRes("", TRUE, <<>>)
    ELSE LET bad == {i \in 1..Len(req) :
                        \/ checkPartsAssertFails(req, i, dbg)
                        \/ getPart(U[id].parts, req[i]) = NoPart}
         IN  IF bad = {}
             THEN MptRes("ok", FALSE, [i \in 1..Len(req) |-> getPart(U[id].parts, req[i])])
             ELSE LET i == CHOOSE k \in bad : \A j \in bad : k <= j
                  IN  IF checkPartsAssertFails(req, i, dbg)
                      THEN MptRes("assert", FALSE, <<>>)
                      ELSE MptRes("", TRUE, <<>>)

\* CheckParts(id, parts) is called
CallCheckParts(id, req, dbg) ==
    /\ mcall.pc = "idle"
    /\ mcall' = [IdleCall EXCEPT !.pc = "cp_lock", !.op = "CheckParts", !.id = id,
                                 !.req = req, !.dbg = dbg]
    /\ UNCHANGED <<up, workfiles, xattr, mclock, nAdds, mu>>
    /\ UNCHANGED <<regVars, eraseVars, authVars, dpqVars, moreVars>>

\* mu.RLock(); defer mu.RUnlock(); the checks and the copy
CpRun ==
    /\ mcall.pc = "cp_lock"
    /\ mu = ""
    /\ mcall' = [mcall EXCEPT !.pc = "done", !.pre = Snapshot,
                    !.existed = UploadExists(mcall.id),
                    !.found = IF UploadExists(mcall.id) THEN up[mcall.id].parts ELSE <<>>,
                    !.res = CheckParts(up, mcall.id, mcall.req, mcall.dbg)]
    /\ UNCHANGED <<up, workfiles, xattr, mclock, nAdds, mu>>
    /\ UNCHANGED <<regVars, eraseVars, authVars, dpqVars, moreVars>>

\* ------------------------------------------------------------ ObjSize

\* "for _, part := range upload.parts { size += part.Size }"
sumSizes(parts) ==
    LET RECURSIVE sum(_)
        sum(i) == IF i = 0 THEN 0 ELSE parts[i].size + sum(i - 1)
    IN  sum(Len(parts))

\* upload, ok := up[id]
objSizeFound(U, id) == id \in DOMAIN U

\* ObjSize(id) is called
CallObjSize(id) ==
    /\ mcall.pc = "idle"
    /\ mcall' = [IdleCall EXCEPT !.pc = "os_lock", !.op = "ObjSize", !.id = id]
    /\ UNCHANGED <<up, workfiles, xattr, mclock, nAdds, mu>>
    /\ UNCHANGED <<regVars, eraseVars, authVars, dpqVars, moreVars>>

\* mu.RLock(); the sum of the part sizes, or the error; mu.RUnlock()
OsRun ==
    /\ mcall.pc = "os_lock"
    /\ mu = ""
    /\ mcall' = IF objSizeFound(up, mcall.id)
                THEN [mcall EXCEPT !.pc = "done", !.pre = Snapshot, !.existed = UploadExists(mcall.id),
                                   !.size = sumSizes(up[mcall.id].parts),
                                   !.res = MptRes("ok", FALSE, <<>>)]
                ELSE [mcall EXCEPT !.pc = "done", !.pre = Snapshot, !.existed = UploadExists(mcall.id),
                                   !.res = MptRes("", TRUE, <<>>)]
    /\ UNCHANGED <<up, workfiles, xattr, mclock, nAdds, mu>>
    /\ UNCHANGED <<regVars, eraseVars, authVars, dpqVars, moreVars>>

\* -------------------------------------------------------- ListUploads

\* UploadInfoResult{Key: mpt.objName, UploadID: id, Initiated: mpt.ctime}
UploadInfoResult(U, id) == [Key |-> U[id].objName, UploadID |-> id, Initiated |-> U[id].ctime]

\* one result for every upload of the map, of whatever bucket, then
\* sort.Slice by Initiated; uploads of one instant come in any order
sortedResults(U) ==
    LET RECURSIVE sorted(_)
        sorted(ids) ==
            IF ids = {} THEN <<>>
            ELSE LET id == CHOOSE x \in ids : \A y \in ids : U[x].ctime <= U[y].ctime
                 IN  <<UploadInfoResult(U, id)>> \o sorted(ids \ {id})
    IN  sorted(DOMAIN U)

\* copy(results, results[from:]); results = results[:len(results)-from]
copyTruncate(results, from) == SubSeq(results, from + 1, Len(results))

\* the loop over the results: at the marker from = i + 1 and break, before it
\* the copy and the cut with the from of that moment
markerLoop(all, idMarker) ==
    LET RECURSIVE loop(_, _)
        loop(i, results) ==
            IF i > Len(all) THEN [results |-> results, from |-> 0]
            ELSE IF all[i].UploadID = idMarker THEN [results |-> results, from |-> i]
            ELSE loop(i + 1, copyTruncate(results, 0))
    IN  IF idMarker # "" THEN loop(1, all) ELSE [results |-> all, from |-> 0]

\* if maxUploads > 0 && len(results) > maxUploads { results = results[:maxUploads] }
cutMax(results, maxUploads) ==
    IF maxUploads > 0 /\ Len(results) > maxUploads THEN SubSeq(results, 1, maxUploads) ELSE results

\* ListUploads(bckName, idMarker, maxUploads)
ListUploads(U, bckName, idMarker, maxUploads) ==
    LET m == markerLoop(sortedResults(U), idMarker)
    IN  [Bucket |-> bckName, Uploads |-> cutMax(m.results, maxUploads), IsTruncated |-> m.from > 0]

\* ListUploads(bckName, idMarker, maxUploads) is called
CallListUploads(bckName, idMarker, maxUploads) ==
    /\ mcall.pc = "idle"
    /\ mcall' = [IdleCall EXCEPT !.pc = "lu_lock", !.op = "ListUploads", !.bck = bckName,
                                 !.marker = idMarker, !.max = maxUploads]
    /\ UNCHANGED <<up, workfiles, xattr, mclock, nAdds, mu>>
    /\ UNCHANGED <<regVars, eraseVars, authVars, dpqVars, moreVars>>

\* mu.RLock(); the results are taken from the map; mu.RUnlock(); the rest
\* works on the caller's own slice
LuRun ==
    /\ mcall.pc = "lu_lock"
    /\ mu = ""
    /\ mcall' = [mcall EXCEPT !.pc = "done", !.pre = Snapshot,
                              !.list = ListUploads(up, mcall.bck, mcall.marker, mcall.max),
                              !.res = MptRes("ok", FALSE, <<>>)]
    /\ UNCHANGED <<up, workfiles, xattr, mclock, nAdds, mu>>
    /\ UNCHANGED <<regVars, eraseVars, authVars, dpqVars, moreVars>>

\* the call has returned
MptReturn ==
    /\ mcall.pc = "done"
    /\ mcall' = IdleCall
    /\ UNCHANGED <<up, workfiles, xattr, mclock, nAdds, mu>>
    /\ UNCHANGED <<regVars, eraseVars, authVars, dpqVars, moreVars>>

\* Init(): up = make(uploads)
InitMpt ==
    /\ up = <<>>
    /\ workfiles = {}
    /\ xattr = <<>>
    /\ mclock = 0
    /\ nAdds = 0
    /\ mu = ""
    /\ mcall = IdleCall

\* the bucket of the uploads, where the buckets play no part
MptBck == "b1"

\* uploads finished, aborted and listed while parts arrive
NextMpt ==
    \/ \E id \in UploadIDs, objName \in ObjNames : InitUpload(id, MptBck, objName)
    \/ \E id \in UploadIDs, md5 \in PartMD5s, size \in PartSizes, num \in PartNums :
          AddPart(id, md5, size, num)
    \/ \E id \in UploadIDs, fqn \in ObjFQNs, aborted \in BOOLEAN : CallFinishUpload(id, fqn, aborted)
    \/ FinLock
    \/ FinStore
    \/ FinUnlink
    \/ FinDelete
    \/ \E id \in UploadIDs, fqn \in ObjFQNs : CallListParts(id, fqn)
    \/ LpLock
    \/ LpLoad
    \/ MptReturn

\* the upload whose parts are checked; the other id is never initiated
CheckedID == "id1"

\* the parts of an upload checked while they arrive
NextCheckParts ==
    \/ \E objName \in ObjNames : InitUpload(CheckedID, MptBck, objName)
    \/ \E md5 \in PartMD5s, size \in PartSizes, num \in PartNums :
          AddPart(CheckedID, md5, size, num)
    \/ \E id \in UploadIDs, req \in PartReqs, dbg \in BOOLEAN : CallCheckParts(id, req, dbg)
    \/ CpRun
    \/ MptReturn

\* the requests for no part and for one part
ShortReqs == {req \in PartReqs : Len(req) <= 1}

\* parts added, sizes asked and parts checked while uploads are finished;
\* part num is num bytes long
NextFinish ==
    \/ \E id \in UploadIDs, objName \in ObjNames : InitUpload(id, MptBck, objName)
    \/ \E id \in UploadIDs, md5 \in PartMD5s, num \in PartNums : AddPart(id, md5, num, num)
    \/ \E id \in UploadIDs, fqn \in ObjFQNs, aborted \in BOOLEAN : CallFinishUpload(id, fqn, aborted)
    \/ FinLock
    \/ FinStore
    \/ FinUnlink
    \/ FinDelete
    \/ \E id \in UploadIDs, req \in ShortReqs : CallCheckParts(id, req, FALSE)
    \/ CpRun
    \/ \E id \in UploadIDs : CallObjSize(id)
    \/ OsRun
    \/ MptReturn

\* the markers of a client: none, or an upload id
Markers == {""} \cup UploadIDs

\* uploads of two buckets are started, finished and listed
NextUploads ==
    \/ \E id \in UploadIDs, bckName \in Bcks, objName \in ObjNames : InitUpload(id, bckName, objName)
    \/ \E id \in UploadIDs, fqn \in ObjFQNs, aborted \in BOOLEAN : CallFinishUpload(id, fqn, aborted)
    \/ FinLock
    \/ FinStore
    \/ FinUnlink
    \/ FinDelete
    \/ \E bckName \in Bcks, idMarker \in Markers, maxUploads \in 0..MaxUploads :
          CallListUploads(bckName, idMarker, maxUploads)
    \/ LuRun
    \/ MptReturn

\* ------------------------------------------------------------ authn token

\* apc.AccessAttrs is a bit mask; here the set of the bits that are set
AceGET == "READ"
AcePUT == "WRITE"
AceAdmin == "ADMIN"
AccessBits == {AceGET, AcePUT, AceAdmin}

\* apc.AccessCluster: the cluster-level bits
AccessCluster == {AceAdmin}

AccessNone == {}

\* AccessAttrs.Has
Has(a, p) == p \subseteq a

\* the errors of CheckPermissions
ErrNil == "nil"
ErrNoPermissions == "insufficient permissions"

ClusterIDs == {"", "C1"}
BckNames == {"b1", "b2"}

\* cmn.Bck{Name, Provider, Ns{UUID, Name}}
NewBck(name, uuid) == [Name |-> name, Provider |-> "ais", Ns |-> [UUID |-> uuid, Name |-> ""]]

\* a nil *cmn.Bck
NilBck == [nil |-> TRUE]

\* Bck.Equal: two buckets are equal iff name, provider and namespace match
BckEqual(a, b) == a.Name = b.Name /\ a.Provider = b.Provider /\ a.Ns = b.Ns

\* the buckets of a token are external: they carry the UUID of their cluster
TokenBcks == {NewBck(n, "C1") : n \in BckNames}

\* the buckets a cluster asks about: its own (no UUID), or named with a UUID
ReqBcks == {NewBck(n, u) : n \in BckNames, u \in ClusterIDs}

CluAccesses == {{AceGET}, AccessBits}
BckAccesses == {{AceGET}, {AceGET, AcePUT}}

\* authn.CluACL and authn.BckACL
CluACLs == [ID : ClusterIDs, Access : CluAccesses]
BckACLs == [Bck : TokenBcks, Access : BckAccesses]

SeqsUpTo(S, n) == UNION {[1..k -> S] : k \in 0..n}

Tokens ==
    [UserID : {"u1"},
     ClusterACLs : SeqsUpTo(CluACLs, MaxCluACLs),
     BucketACLs : SeqsUpTo(BckACLs, MaxBckACLs),
     IsAdmin : BOOLEAN]

NoToken == [UserID |-> "", ClusterACLs |-> <<>>, BucketACLs |-> <<>>, IsAdmin |-> FALSE]

\* Token.aclForCluster: the first ACL of the cluster; without one, the last ACL
\* with the empty ID
aclForCluster(t, clusterID) ==
    LET acls == t.ClusterACLs
        hits == {i \in 1..Len(acls) : acls[i].ID = clusterID}
        first == CHOOSE i \in hits : \A j \in hits : i <= j
        dflt == {i \in 1..Len(acls) : acls[i].ID = ""}
        last == CHOOSE i \in dflt : \A j \in dflt : j <= i
    IN  IF hits # {} THEN [perms |-> acls[first].Access, ok |-> TRUE]
        ELSE IF dflt # {} THEN [perms |-> acls[last].Access, ok |-> TRUE]
        ELSE [perms |-> AccessNone, ok |-> FALSE]

\* aclForBucket: tbBck is a copy of b.Bck and gets its UUID cleared, and the
\* bucket compared with the caller's is b.Bck itself, UUID included
aclBckCompared(b) ==
    LET tbBck == [b.Bck EXCEPT !.Ns.UUID = ""]
    IN  b.Bck

\* Token.aclForBucket: the first ACL of the cluster whose bucket equals bck
aclForBucket(t, clusterID, bck) ==
    LET acls == t.BucketACLs
        hits == {i \in 1..Len(acls) :
                    /\ acls[i].Bck.Ns.UUID = clusterID
                    /\ BckEqual(aclBckCompared(acls[i]), bck)}
        first == CHOOSE i \in hits : \A j \in hits : i <= j
    IN  IF hits # {} THEN [perms |-> acls[first].Access, ok |-> TRUE]
        ELSE [perms |-> AccessNone, ok |-> FALSE]

\* Token.CheckPermissions: the error it returns (ErrNil: none)
CheckPermissions(t, clusterID, bck, perms) ==
    LET cluPerms == perms \cap AccessCluster
        objPerms == perms \ AccessCluster
        clu == aclForCluster(t, clusterID)
        b == aclForBucket(t, clusterID, bck)
        cluErr == IF cluPerms = {} THEN ErrNil
                  ELSE IF ~clu.ok THEN ErrNoPermissions
                  ELSE IF clusterID = "" THEN "Requested cluster permissions without cluster ID"
                  ELSE IF ~Has(clu.perms, cluPerms) THEN ErrNoPermissions
                  ELSE ErrNil
    IN  IF t.IsAdmin THEN ErrNil
        ELSE IF perms = {} THEN "Empty permissions requested"
        ELSE IF cluErr # ErrNil THEN cluErr
        ELSE IF objPerms = {} THEN ErrNil
        ELSE IF bck = NilBck THEN "Requested bucket permissions without a bucket"
        ELSE IF b.ok THEN (IF Has(b.perms, objPerms) THEN ErrNil ELSE ErrNoPermissions)
        ELSE IF ~clu.ok \/ ~Has(clu.perms, objPerms) THEN ErrNoPermissions
        ELSE ErrNil

NoACLCall == [called |-> FALSE]

\* a request is checked against the token
CallCheckPermissions(clusterID, bck, perms) ==
    /\ aclCall = NoACLCall
    /\ aclCall' = [called |-> TRUE, clusterID |-> clusterID, bck |-> bck, perms |-> perms,
                   err |-> CheckPermissions(tk, clusterID, bck, perms)]
    /\ UNCHANGED <<tk, oldACLs, newACLs, merged>>
    /\ UNCHANGED <<regVars, eraseVars, mptVars, dpqVars, moreVars>>

\* ---- MergeBckACLs

\* the ACLs are held by pointer: an entry of a list is the old ACL i or the new ACL j

\* the ACL objects of both arguments
aclHeap(old, new) ==
    [r \in {<<"old", i>> : i \in 1..Len(old)} \cup {<<"new", j>> : j \in 1..Len(new)} |->
        IF r[1] = "old" THEN old[r[2]] ELSE new[r[2]]]

RECURSIVE mergeScan(_, _, _, _, _)
\* the inner loop, over the entries oldACLs had when the loop began: an entry that
\* is not of n's bucket appends n; the entry of n's bucket takes n's access and
\* ends the loop
mergeScan(refs, heap, snapLen, i, n) ==
    IF i > snapLen THEN [refs |-> refs, heap |-> heap]
    ELSE IF BckEqual(heap[refs[i]].Bck, heap[n].Bck)
         THEN [refs |-> refs, heap |-> [heap EXCEPT ![refs[i]].Access = heap[n].Access]]
         ELSE mergeScan(Append(refs, n), heap, snapLen, i + 1, n)

RECURSIVE mergeLoop(_, _, _, _)
\* the outer loop, over newACLs
mergeLoop(refs, heap, j, nNew) ==
    IF j > nNew THEN [k \in 1..Len(refs) |-> heap[refs[k]]]
    ELSE LET r == mergeScan(refs, heap, Len(refs), 1, <<"new", j>>)
         IN  mergeLoop(r.refs, r.heap, j + 1, nNew)

MergeBckACLs(old, new) ==
    mergeLoop([i \in 1..Len(old) |-> <<"old", i>>], aclHeap(old, new), 1, Len(new))

NoMerge == [called |-> FALSE]

CallMergeBckACLs ==
    /\ merged = NoMerge
    /\ merged' = [called |-> TRUE, acls |-> MergeBckACLs(oldACLs, newACLs)]
    /\ UNCHANGED <<tk, aclCall, oldACLs, newACLs>>
    /\ UNCHANGED <<regVars, eraseVars, mptVars, dpqVars, moreVars>>

MergeInputs == SeqsUpTo(BckACLs, MaxMergeACLs)

\* ------------------------------------------------------------ datapath query

\* the cases of the switch (apc.QparamProvider .. apc.QparamLatestVer)
ParsedKeys ==
    {"provider", "namespace", "skip-vc", "unix-time", "uuid", "archpath", "archmime",
     "is-gfn", "orig-url", "append-type", "append-handle", "owt", "flt-presence",
     "dont-add-remote", "binfo", "etl-name", "silent", "latest-ver"}

\* keys the default case lets pass in a debug build: apc.QparamProxyID (not used
\* yet), s3.QparamMptUploadID (left to the conventional r.URL.Query() parsing)
PassedKeys == {"pid", "uploadId"}

\* a key of neither list
BogusKey == "bogus"

\* a string is the sequence of its pieces; '&' and '=' are pieces of their own
Amp == "&"
Eq == "="
EmptyStr == <<>>

\* values: a boolean, an escaped blank, a malformed escape
QueryValues == {"true", "a%20b", "%zz"}

\* the segments queries are made of: key=value, a bare key, a segment that begins with '='
QuerySegments ==
    {<<k, Eq, v>> : k \in ParsedKeys \cup PassedKeys \cup {BogusKey}, v \in QueryValues}
        \cup {<<BogusKey>>, <<Eq, "true">>}

RECURSIVE JoinSegments(_)
\* the segments joined by '&'
JoinSegments(segs) ==
    IF segs = <<>> THEN EmptyStr
    ELSE IF Len(segs) = 1 THEN segs[1]
    ELSE segs[1] \o <<Amp>> \o JoinSegments(Tail(segs))

RawQueries == {JoinSegments(segs) : segs \in UNION {[1..n -> QuerySegments] : n \in 0..MaxSegs}}

\* strings.IndexByte, counted from 1 (0: not there)
IndexByte(s, c) ==
    LET hits == {i \in 1..Len(s) : s[i] = c}
    IN  IF hits = {} THEN 0 ELSE CHOOSE i \in hits : \A j \in hits : i <= j

\* keyEQval: split at the first '=' unless the segment begins with it
keyEQval(s) ==
    LET i == IndexByte(s, Eq)
    IN  IF i > 1 THEN [key |-> SubSeq(s, 1, i - 1), value |-> SubSeq(s, i + 1, Len(s)), ok |-> TRUE]
        ELSE [key |-> s, value |-> EmptyStr, ok |-> FALSE]

ErrEscape == "invalid URL escape"
ErrUnknownKey == "failed to fast-parse, unknown key"

\* url.QueryUnescape of one piece
unescapePiece(p) == IF p = "a%20b" THEN "a b" ELSE p

\* url.QueryUnescape: the unescaped string, or "" and an error
QueryUnescape(value) ==
    IF \E i \in 1..Len(value) : value[i] = "%zz"
    THEN [s |-> EmptyStr, err |-> ErrEscape]
    ELSE [s |-> [i \in 1..Len(value) |-> unescapePiece(value[i])], err |-> ErrNil]

\* cos.IsParseBool: the parsed boolean, false when it does not parse
IsParseBool(value) == value = <<"true">>

\* dpq0: the zero dpq
dpq0 ==
    [bck |-> [provider |-> EmptyStr, namespace |-> EmptyStr],
     apnd |-> [ty |-> EmptyStr, hdl |-> EmptyStr],
     arch |-> [path |-> EmptyStr, mime |-> EmptyStr, regx |-> EmptyStr, mode |-> EmptyStr],
     ptime |-> EmptyStr, uuid |-> EmptyStr, origURL |-> EmptyStr, owt |-> EmptyStr,
     fltPresence |-> EmptyStr, etlName |-> EmptyStr, binfo |-> EmptyStr,
     skipVC |-> FALSE, isGFN |-> FALSE, dontAddRemote |-> FALSE, silent |-> FALSE,
     latestVer |-> FALSE, isS3 |-> FALSE]

unknownKeyNeverFails(key, dbg) == FALSE

\* the default case: debug.Func runs in a debug build only, and there a key that
\* is not let pass fails debug.AssertNoErr
unknownKeyFails(key, dbg) == dbg /\ key \notin {<<k>> : k \in PassedKeys}

\* one turn of the switch: the error it leaves (panic: the assertion failed) and the dpq
parseKey(d, key, value, dbg) ==
    LET un == QueryUnescape(value)
        set(nd) == [err |-> ErrNil, panic |-> FALSE, dpq |-> nd]
        esc(nd) == [err |-> un.err, panic |-> FALSE, dpq |-> nd]
    IN  CASE key = <<"provider">> -> set([d EXCEPT !.bck.provider = value])
          [] key = <<"namespace">> -> esc([d EXCEPT !.bck.namespace = un.s])
          [] key = <<"skip-vc">> -> set([d EXCEPT !.skipVC = IsParseBool(value)])
          [] key = <<"unix-time">> -> set([d EXCEPT !.ptime = value])
          [] key = <<"uuid">> -> set([d EXCEPT !.uuid = value])
          [] key = <<"archpath">> -> esc([d EXCEPT !.arch.path = un.s])
          [] key = <<"archmime">> -> esc([d EXCEPT !.arch.mime = un.s])
          [] key = <<"is-gfn">> -> set([d EXCEPT !.isGFN = IsParseBool(value)])
          [] key = <<"orig-url">> -> esc([d EXCEPT !.origURL = un.s])
          [] key = <<"append-type">> -> set([d EXCEPT !.apnd.ty = value])
          [] key = <<"append-handle">> -> esc([d EXCEPT !.apnd.hdl = un.s])
          [] key = <<"owt">> -> set([d EXCEPT !.owt = value])
          [] key = <<"flt-presence">> -> set([d EXCEPT !.fltPresence = value])
          [] key = <<"dont-add-remote">> -> set([d EXCEPT !.dontAddRemote = IsParseBool(value)])
          [] key = <<"binfo">> -> set([d EXCEPT !.binfo = value])
          [] key = <<"etl-name">> -> set([d EXCEPT !.etlName = value])
          [] key = <<"silent">> -> set([d EXCEPT !.silent = IsParseBool(value)])
          [] key = <<"latest-ver">> -> set([d EXCEPT !.latestVer = IsParseBool(value)])
          [] OTHER -> IF unknownKeyFails(key, dbg)
                      THEN [err |-> ErrUnknownKey, panic |-> TRUE, dpq |-> d]
                      ELSE set(d)

RECURSIVE parseLoop(_, _, _)
\* for query != "": cut the segment before the first '&', split it, switch on the key
parseLoop(d, query, dbg) ==
    IF query = EmptyStr THEN [err |-> ErrNil, panic |-> FALSE, dpq |-> d]
    ELSE LET i == IndexByte(query, Amp)
             seg == IF i > 0 THEN SubSeq(query, 1, i - 1) ELSE query
             rest == IF i > 0 THEN SubSeq(query, i + 1, Len(query)) ELSE EmptyStr
             kv == keyEQval(seg)
             r == parseKey(d, kv.key, kv.value, dbg)
         IN  IF r.err # ErrNil THEN r ELSE parseLoop(r.dpq, rest, dbg)

\* dpq.parse on a dpq fresh from dpqAlloc
parse(query, dbg) == parseLoop(dpq0, query, dbg)

NoDpqCall == [called |-> FALSE]

\* the query is parsed, by a debug or by a release build
CallParse(dbg) ==
    /\ dpqCall = NoDpqCall
    /\ dpqCall' = [called |-> TRUE, dbg |-> dbg, res |-> parse(rawQuery, dbg)]
    /\ UNCHANGED rawQuery
    /\ UNCHANGED <<regVars, eraseVars, mptVars, authVars, moreVars>>

\* ------------------------------------------------------------- dpqPool

\* the queries of the requests that share the pool: one segment each, for a
\* string, an escaped string and a flag
PoolKeys == {"provider", "namespace", "skip-vc"}

PoolQueries == {<<k, Eq, v>> : k \in PoolKeys, v \in QueryValues}

dpqFreeKeeps(d) == d

\* *dpq = dpq0
dpqFreeValue(d) == dpq0

\* dpqAlloc: dpqPool.Get() returns a dpq of the pool, any of them
DpqAllocPooled(i) ==
    /\ i \in dpqPool
    /\ dpqPool' = dpqPool \ {i}
    /\ dpqHeld' = dpqHeld \cup {i}
    /\ UNCHANGED dpqs
    /\ UNCHANGED <<baseVars, walkVars, lruVars, invVars, mncVars, addVars>>

\* dpqAlloc: dpqPool.Get() returns nil, as it may at any time: return &dpq{}
DpqAllocNew ==
    /\ Len(dpqs) < MaxDpqs
    /\ dpqs' = Append(dpqs, [v |-> dpq0, written |-> FALSE])
    /\ dpqHeld' = dpqHeld \cup {Len(dpqs) + 1}
    /\ UNCHANGED dpqPool
    /\ UNCHANGED <<baseVars, walkVars, lruVars, invVars, mncVars, addVars>>

\* dpq.parse(rawQuery) by the request that holds the dpq
DpqParse(i, query, dbg) ==
    /\ i \in dpqHeld
    /\ LET r == parseLoop(dpqs[i].v, query, dbg)
       IN  dpqs' = [dpqs EXCEPT ![i] = [v |-> r.dpq, written |-> @.written \/ r.dpq # dpq0]]
    /\ UNCHANGED <<dpqPool, dpqHeld>>
    /\ UNCHANGED <<baseVars, walkVars, lruVars, invVars, mncVars, addVars>>

\* dpqFree(dpq) by the request that holds the dpq
DpqFree(i) ==
    /\ i \in dpqHeld
    /\ dpqs' = [dpqs EXCEPT ![i].v = dpqFreeValue(@)]
    /\ dpqPool' = dpqPool \cup {i}
    /\ dpqHeld' = dpqHeld \ {i}
    /\ UNCHANGED <<baseVars, walkVars, lruVars, invVars, mncVars, addVars>>

\* the garbage collector empties the pool
DpqPoolDrop ==
    /\ dpqPool # {}
    /\ dpqPool' = {}
    /\ UNCHANGED <<dpqs, dpqHeld>>
    /\ UNCHANGED <<baseVars, walkVars, lruVars, invVars, mncVars, addVars>>

InitPool ==
    /\ dpqs = <<>>
    /\ dpqPool = {}
    /\ dpqHeld = {}

NextPool ==
    \/ \E i \in 1..MaxDpqs : DpqAllocPooled(i)
    \/ DpqAllocNew
    \/ \E i \in 1..MaxDpqs, query \in PoolQueries, dbg \in BOOLEAN : DpqParse(i, query, dbg)
    \/ \E i \in 1..MaxDpqs : DpqFree(i)
    \/ DpqPoolDrop

\* ---------------------------------------------------------------- specs

InitReg ==
    /\ xacts = <<>>
    /\ reg = {}
    /\ qreg = [u \in UUIDs |-> NoEntry]
    /\ task = [t \in Tasks |-> IdleTask]

\* no token checked, nothing merged, nothing parsed
InitAuthIdle ==
    /\ tk = NoToken
    /\ aclCall = NoACLCall
    /\ oldACLs = <<>>
    /\ newACLs = <<>>
    /\ merged = NoMerge

InitDpqIdle ==
    /\ rawQuery = EmptyStr
    /\ dpqCall = NoDpqCall

InitMoreIdle ==
    /\ InitWalkIdle
    /\ InitLruIdle
    /\ InitInvIdle
    /\ runs = <<>> /\ added = NoAdd /\ InitPool

Init == InitReg /\ InitErase /\ InitMpt /\ InitAuthIdle /\ InitDpqIdle /\ InitMoreIdle

\* any token, checked once
InitToken ==
    /\ InitReg /\ InitErase /\ InitMpt /\ InitDpqIdle /\ InitMoreIdle
    /\ tk \in Tokens
    /\ aclCall = NoACLCall
    /\ oldACLs = <<>>
    /\ newACLs = <<>>
    /\ merged = NoMerge

NextToken ==
    \E clusterID \in ClusterIDs, bck \in ReqBcks \cup {NilBck}, perms \in SUBSET AccessBits :
        CallCheckPermissions(clusterID, bck, perms)

SpecToken == InitToken /\ [][NextToken]_vars

\* any two lists of bucket ACLs, merged once
InitMerge ==
    /\ InitReg /\ InitErase /\ InitMpt /\ InitDpqIdle /\ InitMoreIdle
    /\ tk = NoToken
    /\ aclCall = NoACLCall
    /\ oldACLs \in MergeInputs
    /\ newACLs \in MergeInputs
    /\ merged = NoMerge

NextMerge == CallMergeBckACLs

SpecMerge == InitMerge /\ [][NextMerge]_vars

\* any query, parsed once
InitDpq ==
    /\ InitReg /\ InitErase /\ InitMpt /\ InitAuthIdle /\ InitMoreIdle
    /\ rawQuery \in RawQueries
    /\ dpqCall = NoDpqCall

NextDpq == \E dbg \in BOOLEAN : CallParse(dbg)

SpecDpq == InitDpq /\ [][NextDpq]_vars

NextReg ==
    \/ \E t \in Tasks, kind \in BucketXactKinds, bck \in Bcks : CallRenewBucketXact(t, kind, bck) /\ UNCHANGED <<eraseVars, mptVars, authVars, dpqVars, moreVars>>
    \/ \E t \in Tasks : RenewBckXactStep(t) /\ UNCHANGED <<eraseVars, mptVars, authVars, dpqVars, moreVars>>
    \/ \E t \in Tasks : IncPendingStep(t) /\ UNCHANGED <<eraseVars, mptVars, authVars, dpqVars, moreVars>>
    \/ \E t \in Tasks : DecPendingStep(t) /\ UNCHANGED <<eraseVars, mptVars, authVars, dpqVars, moreVars>>
    \/ \E t \in Tasks : Return(t) /\ UNCHANGED <<eraseVars, mptVars, authVars, dpqVars, moreVars>>
    \/ \E i \in 1..Len(xacts) : XactFinish(i) /\ UNCHANGED <<eraseVars, mptVars, authVars, dpqVars, moreVars>>
    \/ \E i \in 1..Len(xacts) : XactAbort(i) /\ UNCHANGED <<eraseVars, mptVars, authVars, dpqVars, moreVars>>

SpecReg == Init /\ [][NextReg]_vars

\* no other task is inside a renewal
Solo(t) == \A u \in Tasks \ {t} : task[u].pc = "idle"

\* the renewals keyed by UUID, called one after the other
NextUuid ==
    \/ \E t \in Tasks, bck \in Bcks, uuid \in UUIDs : Solo(t) /\ CallRenewObjList(t, bck, uuid) /\ UNCHANGED <<eraseVars, mptVars, authVars, dpqVars, moreVars>>
    \/ \E t \in Tasks : ObjListGet(t) /\ UNCHANGED <<eraseVars, mptVars, authVars, dpqVars, moreVars>>
    \/ \E t \in Tasks : ObjListRenew(t) /\ UNCHANGED <<eraseVars, mptVars, authVars, dpqVars, moreVars>>
    \/ \E t \in Tasks, bck \in Bcks, uuid \in UUIDs : Solo(t) /\ CallRenewBckSummary(t, bck, uuid) /\ UNCHANGED <<eraseVars, mptVars, authVars, dpqVars, moreVars>>
    \/ \E t \in Tasks : SummaryDel(t) /\ UNCHANGED <<eraseVars, mptVars, authVars, dpqVars, moreVars>>
    \/ \E t \in Tasks : SummaryStart(t) /\ UNCHANGED <<eraseVars, mptVars, authVars, dpqVars, moreVars>>
    \/ \E t \in Tasks, bck \in Bcks, uuid \in UUIDs : Solo(t) /\ CallRenewQuery(t, bck, uuid) /\ UNCHANGED <<eraseVars, mptVars, authVars, dpqVars, moreVars>>
    \/ \E t \in Tasks : QueryGet(t) /\ UNCHANGED <<eraseVars, mptVars, authVars, dpqVars, moreVars>>
    \/ \E t \in Tasks : QueryDel(t) /\ UNCHANGED <<eraseVars, mptVars, authVars, dpqVars, moreVars>>
    \/ \E t \in Tasks : QueryRenew(t) /\ UNCHANGED <<eraseVars, mptVars, authVars, dpqVars, moreVars>>
    \/ \E t \in Tasks : Return(t) /\ UNCHANGED <<eraseVars, mptVars, authVars, dpqVars, moreVars>>
    \/ \E i \in 1..Len(xacts) : XactFinish(i) /\ UNCHANGED <<eraseVars, mptVars, authVars, dpqVars, moreVars>>
    \/ \E i \in 1..Len(xacts) : XactAbort(i) /\ UNCHANGED <<eraseVars, mptVars, authVars, dpqVars, moreVars>>

SpecUuid == Init /\ [][NextUuid]_vars

NextMnc ==
    \/ \E t \in Tasks, op \in MncOps, bck \in Bcks : CallMakeNCopies(t, op, bck)
    \/ \E t \in Tasks : MakeNCopiesRenew(t)
    \/ \E t \in Tasks : MakeNCopiesGo(t)
    \/ \E t \in Tasks : Return(t) /\ UNCHANGED <<eraseVars, mptVars, authVars, dpqVars, moreVars>>
    \/ \E i \in 1..Len(xacts) : XactFinish(i) /\ UNCHANGED <<eraseVars, mptVars, authVars, dpqVars, moreVars>>
    \/ \E i \in 1..Len(xacts) : XactAbort(i) /\ UNCHANGED <<eraseVars, mptVars, authVars, dpqVars, moreVars>>

\* the steps of the xaction's own goroutines: Run, the erasers, the senders
EraseSteps ==
    \/ ReqMountpathSend
    \/ RunBegin
    \/ RunSpawn
    \/ RunAbortCase
    \/ RunMpathChangeCase
    \/ \E mp \in DOMAIN emap : RunStopEraser(mp)
    \/ RunStopDone
    \/ RunReread
    \/ \E mp \in DOMAIN emap : JogStart(mp)
    \/ \E mp \in DOMAIN emap : JogWalk(mp)
    \/ \E e \in BagToSet(orphans) : OrphanWalk(e)

\* the erase xaction with its goroutines scheduled; aborts and mountpath events
\* come when they come
SpecNotify == Init /\ [][NextErase]_vars /\ WF_vars(EraseSteps)

SpecMnc == Init /\ [][NextMnc]_vars

\* renewObjList called by several tasks at once
NextList ==
    \/ \E t \in Tasks, bck \in Bcks, uuid \in UUIDs : CallRenewObjList(t, bck, uuid) /\ UNCHANGED <<eraseVars, mptVars, authVars, dpqVars, moreVars>>
    \/ \E t \in Tasks : ObjListGet(t) /\ UNCHANGED <<eraseVars, mptVars, authVars, dpqVars, moreVars>>
    \/ \E t \in Tasks : ObjListRenew(t) /\ UNCHANGED <<eraseVars, mptVars, authVars, dpqVars, moreVars>>
    \/ \E t \in Tasks : Return(t) /\ UNCHANGED <<eraseVars, mptVars, authVars, dpqVars, moreVars>>
    \/ \E i \in 1..Len(xacts) : XactFinish(i) /\ UNCHANGED <<eraseVars, mptVars, authVars, dpqVars, moreVars>>
    \/ \E i \in 1..Len(xacts) : XactAbort(i) /\ UNCHANGED <<eraseVars, mptVars, authVars, dpqVars, moreVars>>

SpecList == Init /\ [][NextList]_vars

SpecErase == Init /\ [][NextErase]_vars

SpecCoalesce == Init /\ [][NextCoalesce]_vars

InitWalkOnly ==
    /\ InitReg /\ InitErase /\ InitMpt /\ InitAuthIdle /\ InitDpqIdle
    /\ InitWalk /\ InitLruIdle /\ InitInvIdle /\ runs = <<>> /\ added = NoAdd /\ InitPool

SpecWalk == InitWalkOnly /\ [][NextWalk]_vars

InitLruOnly ==
    /\ InitReg /\ InitErase /\ InitMpt /\ InitAuthIdle /\ InitDpqIdle
    /\ InitWalkIdle /\ InitLru /\ InitInvIdle /\ runs = <<>> /\ added = NoAdd /\ InitPool

SpecLru == InitLruOnly /\ [][NextLru]_vars

SpecLruAbort == InitLruOnly /\ [][NextLruAbort]_vars

InitInvOnly ==
    /\ InitReg /\ InitErase /\ InitMpt /\ InitAuthIdle /\ InitDpqIdle
    /\ InitWalkIdle /\ InitLruIdle /\ InitInv /\ runs = <<>> /\ added = NoAdd /\ InitPool

SpecInv == InitInvOnly /\ [][NextInv]_vars

\* the goroutines of Run, of the erasers and of the senders are all scheduled
SpecEraseRun == Init /\ [][NextEraseRun]_vars /\ WF_vars(NextEraseRun)

SpecMpt == Init /\ [][NextMpt]_vars

SpecCheckParts == Init /\ [][NextCheckParts]_vars

SpecFinish == Init /\ [][NextFinish]_vars

SpecPool == Init /\ [][NextPool]_vars

SpecUploads == Init /\ [][NextUploads]_vars

\* the life of xactions: list xactions of one bucket renewed by UUID by one
\* task, ended at any time, and an erase xaction that is started, aborted and
\* stopped (no mountpath events)
LifeTask == "t1"
LifeBck == "b1"

NextLife ==
    \/ \E uuid \in UUIDs : CallRenewObjList(LifeTask, LifeBck, uuid) /\ UNCHANGED <<eraseVars, mptVars, authVars, dpqVars, moreVars>>
    \/ \E t \in Tasks : ObjListGet(t) /\ UNCHANGED <<eraseVars, mptVars, authVars, dpqVars, moreVars>>
    \/ \E t \in Tasks : ObjListRenew(t) /\ UNCHANGED <<eraseVars, mptVars, authVars, dpqVars, moreVars>>
    \/ \E t \in Tasks : Return(t) /\ UNCHANGED <<eraseVars, mptVars, authVars, dpqVars, moreVars>>
    \/ \E i \in 1..Len(xacts) : XactFinish(i) /\ UNCHANGED <<eraseVars, mptVars, authVars, dpqVars, moreVars>>
    \/ \E i \in 1..Len(xacts) : XactAbort(i) /\ UNCHANGED <<eraseVars, mptVars, authVars, dpqVars, moreVars>>
    \/ Abort
    \/ RunBegin
    \/ RunSpawn
    \/ RunAbortCase
    \/ \E mp \in DOMAIN emap : RunStopEraser(mp)
    \/ RunStopDone
    \/ StopAgain
    \/ \E mp \in DOMAIN emap : JogStart(mp)
    \/ \E mp \in DOMAIN emap : JogWalk(mp)

SpecLife == Init /\ [][NextLife]_vars

\* ------------------------------------------------------------- claims

OfKey(X, i, kind, bck) == X[i].kind = kind /\ X[i].bck = bck

\* C1: for every (kind, bucket), and so for every kind that keeps the default
\* BaseBckEntry hooks, the registry holds at most one xaction that is neither
\* aborted nor finished.
C1_AtMostOneNonTerminal ==
    \A kind \in DefaultHookKinds, bck \in Bcks :
        Cardinality(RunningEntries(xacts, reg, kind, bck, NoUUID)) <= 1

\* C2: a Renew(kind, bck) made while the xaction of the previous Renew(kind, bck)
\* is still running returns that entry with IsNew = false and no error, and
\* adds no entry to the registry (stated for the kinds with the default hooks).
C2_RenewTwiceSameEntry ==
    [][\A t \in Tasks :
          (/\ task[t].pc = "renew"
           /\ task'[t].pc # "renew"
           /\ task[t].kind \in DefaultHookKinds
           /\ RunningEntries(xacts, reg, task[t].kind, task[t].bck, NoUUID) # {})
          => (/\ task'[t].res.entry \in RunningEntries(xacts, reg, task[t].kind, task[t].bck, NoUUID)
              /\ ~task'[t].res.isNew
              /\ ~task'[t].res.err
              /\ reg' = reg
              /\ Len(xacts') = Len(xacts))]_vars

\* two tasks have both returned from RenewBucketXact("make-n-copies", bck), called
\* when the registry had no such xaction, without error, and no such xaction has ended
BothRenewed(t, u, bck) ==
    /\ t # u
    /\ \A w \in {t, u} : /\ task[w].pc = "done"
                         /\ task[w].op = "renewBucketXact"
                         /\ task[w].kind = ActMakeNCopies
                         /\ task[w].bck = bck
                         /\ ~task[w].pre
                         /\ ~task[w].res.err
    /\ \A i \in 1..Len(xacts) : OfKey(xacts, i, ActMakeNCopies, bck) => xacts[i].st = Running

C4_ErrorLeavesRegistry ==
    \A t \in Tasks : (task[t].pc = "done" /\ task[t].res.err) => task[t].delta = {}

\* C5: a RenewBucketXact that returns an existing on-demand xaction without error
\* has incremented and decremented its pending counter once each; any other
\* result touched no counter; a counter is never negative and, outside the
\* window between the two, has the value it had before the call.
C5_PendingBumpedAndReleased ==
    /\ \A t \in Tasks :
          (task[t].pc = "done" /\ task[t].op = "renewBucketXact")
          => IF /\ ~task[t].res.err
                /\ ~task[t].res.isNew
                /\ IsXactDemand(xacts[task[t].res.entry])
             THEN task[t].nInc = 1 /\ task[t].nDec = 1
             ELSE task[t].nInc = 0 /\ task[t].nDec = 0
    /\ \A i \in 1..Len(xacts) :
          /\ xacts[i].pending >= 0
          /\ xacts[i].pending =
                Cardinality({t \in Tasks : task[t].pc = "dec" /\ task[t].res.entry = i})

C5_Witness ==
    \E t \in Tasks :
        /\ task[t].pc = "done"
        /\ task[t].op = "renewBucketXact"
        /\ ~task[t].res.err
        /\ ~task[t].res.isNew
        /\ IsXactDemand(xacts[task[t].res.entry])
        /\ task[t].nInc = 1
        /\ task[t].nDec = 1
        /\ xacts[task[t].res.entry].pending = 0

\* the erase xaction was aborted, and Run has handled the abort and returned
AbortedAndReturned == abortCh = "closed" /\ runRes = "aborted" /\ runPc = "done"

ObjListReturns(t) ==
    /\ task[t].op = "renewObjList"
    /\ task[t].pc \in {"ol_get", "ol_renew"}
    /\ task'[t].pc = "done"
    /\ ~task'[t].res.err

\* C7: an xaction that is aborted or finished keeps that state for good; a
\* renewObjList never returns an xaction that has ended: what it returns is
\* running, or is a new running entry of the registry; and once the erase
\* xaction is finished its end time stays, and a stop() after Run has returned
\* changes nothing.
C7_TerminalIsAbsorbing ==
    [][/\ \A i \in 1..Len(xacts) :
             Finished(xacts[i]) => (i <= Len(xacts') /\ xacts'[i].st = xacts[i].st)
       /\ \A t \in Tasks :
             ObjListReturns(t)
             => LET e == task'[t].res.entry
                IN  IF e \in 1..Len(xacts)
                    THEN ~Finished(xacts[e]) /\ ~task'[t].res.isNew
                    ELSE /\ task'[t].res.isNew
                         /\ e \in reg'
                         /\ xacts'[e].st = Running
                         /\ xacts'[e].uuid = task[t].uuid
       /\ XactFinished => etime' = etime
       /\ runPc = "done"
          => /\ XactFinished
             /\ runPc' = "done"
             /\ ticker' = ticker
             /\ clock' = clock
             /\ DOMAIN emap' = DOMAIN emap
             /\ \A mp \in DOMAIN emap : /\ emap'[mp].nStop = emap[mp].nStop
                                        /\ emap'[mp].ch = emap[mp].ch]_vars

C7_Witness ==
    /\ \E t \in Tasks :
          /\ task[t].pc = "done"
          /\ task[t].op = "renewObjList"
          /\ ~task[t].res.err
          /\ task[t].res.isNew
          /\ \E i \in reg : /\ i # task[t].res.entry
                            /\ xacts[i].uuid = task[t].uuid
                            /\ Finished(xacts[i])
    /\ XactFinished
    /\ runPc = "done"
    /\ lateStops >= 1

\* C8: a mountpath notification is handled to its end: Run is never stuck in
\* the stopping of the erasers it had; the erasers it dropped have all been
\* stopped; back in its loop it has exactly one new eraser per mountpath of the
\* set it read; and with an empty set it has stopped and returned.
C8_NotificationRestartsErasers ==
    /\ ~(runAfter = "reread" /\ runPc \in {"blocked", "panic"})
    /\ \A e \in BagToSet(orphans) : e.nStop = 1
    /\ runPc = "loop"
       => /\ DOMAIN emap = availablePaths
          /\ \A mp \in DOMAIN emap : emap[mp].mp = mp /\ emap[mp].nStop = 0
    /\ (runPc = "done" /\ runRes = "no mountpaths") => (XactFinished /\ emap = <<>>)

\* the erasers of the xaction whose goroutine has not ended
LiveErasers ==
    {emap[mp] : mp \in {k \in DOMAIN emap : emap[k].pc # "done"}} \cup BagToSet(orphans)

\* the next step of a running eraser processes a file
WillProcess(e) == e.pc = "walk" /\ walk(e).left < e.left

\* C9: once Run has returned from an abort, the end time is recorded, every
\* eraser of the xaction has been stopped, and no eraser that is still running
\* goes on to process a file.
C9_AbortStopsErasers ==
    (runPc = "done" /\ runRes = "aborted")
    => /\ XactFinished
       /\ \A mp \in DOMAIN emap : emap[mp].nStop = 1
       /\ \A e \in LiveErasers : ~WillProcess(e)

\* the part numbers of a list of parts
NumsOf(parts) == [i \in 1..Len(parts) |-> parts[i].num]

IsAscending(nums) == \A i, j \in 1..Len(nums) : i < j => nums[i] <= nums[j]

\* C10: the part list of every active upload is ascending by part number, and
\* ListParts returns all of its parts, ascending by part number.
C10_PartsAscending ==
    \A id \in DOMAIN up :
        /\ IsAscending(NumsOf(up[id].parts))
        /\ \A fqn \in ObjFQNs :
              /\ Len(ListParts(id, fqn)) = Len(up[id].parts)
              /\ IsAscending([i \in 1..Len(ListParts(id, fqn)) |-> ListParts(id, fqn)[i].partNumber])

\* the workfiles of the parts the call found in the upload
FilesOfFound == {mcall.found[i].fqn : i \in 1..Len(mcall.found)}

\* FinishUpload of an active upload has returned
FinishedExisting == mcall.pc = "done" /\ mcall.op = "FinishUpload" /\ mcall.existed

XattrAfterStore ==
    IF mcall.aborted
    THEN xattr = mcall.pre.xattr
    ELSE /\ mcall.fqn \in DOMAIN xattr
         /\ xattr[mcall.fqn] = [i \in 1..Len(mcall.found) |->
                                   [md5 |-> mcall.found[i].md5, size |-> mcall.found[i].size,
                                    num |-> mcall.found[i].num]]
         /\ \A f \in DOMAIN mcall.pre.xattr \ {mcall.fqn} : xattr[f] = mcall.pre.xattr[f]

C13_AbortMissingIsNoError ==
    (mcall.pc = "done" /\ mcall.op = "FinishUpload" /\ ~mcall.existed /\ mcall.aborted)
    => /\ mcall.res.out = "ok"
       /\ ~mcall.res.err
       /\ up = mcall.pre.up
       /\ workfiles = mcall.pre.workfiles
       /\ xattr = mcall.pre.xattr

C13_Witness ==
    /\ mcall.pc = "done"
    /\ mcall.op = "FinishUpload"
    /\ ~mcall.existed
    /\ mcall.aborted
    /\ mcall.res.out = "ok"
    /\ \E id \in DOMAIN up : Len(up[id].parts) >= 1
    /\ workfiles # {}

\* the part numbers of the request strictly ascend
ReqAscends == \A i \in 2..Len(mcall.req) : mcall.req[i] > mcall.req[i - 1]

\* the upload exists and has a part for every requested number
ReqIsThere ==
    /\ mcall.existed
    /\ \A i \in 1..Len(mcall.req) :
          \E k \in 1..Len(mcall.found) : mcall.found[k].num = mcall.req[i]

\* a successful CheckParts returns one part of the upload per requested number,
\* in the order of the request
ReqAnswered ==
    /\ ~mcall.res.err
    /\ Len(mcall.res.parts) = Len(mcall.req)
    /\ \A i \in 1..Len(mcall.req) :
          /\ mcall.res.parts[i].num = mcall.req[i]
          /\ \E k \in 1..Len(mcall.found) : mcall.found[k] = mcall.res.parts[i]

CheckPartsReturned == mcall.pc = "done" /\ mcall.op = "CheckParts"

\* C14 (as claimed): CheckParts succeeds iff the upload exists and every
\* requested number has been added, whatever the request; on success one part
\* per requested number in the caller's order; otherwise an error; the registry
\* is unchanged.
C14_CheckPartsAnyRequest ==
    CheckPartsReturned
    => /\ up = mcall.pre.up
       /\ (mcall.res.out = "ok") <=> ReqIsThere
       /\ mcall.res.out = "ok" => ReqAnswered
       /\ mcall.res.out # "ok" => mcall.res.err

\* C14 (amended): the same for requests whose part numbers strictly ascend and
\* for builds without debug assertions; in a debug build a request that does not
\* ascend fails the assertion instead of succeeding.
C14_CheckPartsAscending ==
    CheckPartsReturned
    => /\ up = mcall.pre.up
       /\ (mcall.res.out = "ok") <=> (ReqIsThere /\ (ReqAscends \/ ~mcall.dbg))
       /\ mcall.res.out = "ok" => ReqAnswered
       /\ mcall.res.out # "ok"
          => \/ mcall.res.err /\ mcall.res.out = ""
             \/ mcall.res.out = "assert" /\ mcall.dbg /\ ~ReqAscends /\ mcall.existed

C14_Witness ==
    /\ CheckPartsReturned
    /\ mcall.res.out = "ok"
    /\ mcall.req = <<1, 2>>
    /\ Len(mcall.found) = 2
    /\ mcall.found[1].num = 2
    /\ mcall.found[2].num = 1
    /\ mcall.res.parts = <<mcall.found[2], mcall.found[1]>>

\* C15: a call that is storing xattr, unlinking workfiles or loading xattr
\* does not hold the registry lock.
C15_NoFileIOUnderLock ==
    mcall.pc \in {"fin_store", "fin_unlink", "lp_load"} => mu = ""

IsACLOf(acl, clusterID, bck) ==
    /\ acl.Bck.Ns.UUID = clusterID
    /\ acl.Bck.Name = bck.Name
    /\ acl.Bck.Provider = bck.Provider
    /\ bck.Ns.UUID \in {"", clusterID}

BckACLsOf(t, clusterID, bck) ==
    {i \in 1..Len(t.BucketACLs) : IsACLOf(t.BucketACLs[i], clusterID, bck)}

\* the cluster ACLs that count for clusterID: its own, and without one the default ones
CluACLsOf(t, clusterID) ==
    LET own == {i \in 1..Len(t.ClusterACLs) : t.ClusterACLs[i].ID = clusterID}
    IN  IF own # {} THEN own ELSE {i \in 1..Len(t.ClusterACLs) : t.ClusterACLs[i].ID = ""}

ObjectPermsOnly(perms) == perms # {} /\ perms \cap AccessCluster = {}

\* C17: for a non-admin token the bucket ACL defined for (clusterID, bck) decides
\* the object-level permissions, whatever the cluster ACL says: the request is
\* granted iff that bucket ACL has the requested bits. With cluster ACL {C1: READ}
\* and bucket ACL {(C1, b1): READ|WRITE}: WRITE on b1 is granted, WRITE on b2 and
\* cluster-admin without a bucket return ErrNoPermissions.
C17_BucketACLOverrides ==
    (aclCall.called /\ ~tk.IsAdmin) =>
        /\ \A i \in 1..Len(tk.BucketACLs) :
              ( /\ aclCall.bck = NewBck(tk.BucketACLs[i].Bck.Name, "")
                /\ BckACLsOf(tk, aclCall.clusterID, aclCall.bck) = {i}
                /\ ObjectPermsOnly(aclCall.perms) )
              => (aclCall.err = ErrNil <=> Has(tk.BucketACLs[i].Access, aclCall.perms))
        /\ ( /\ tk.ClusterACLs = <<[ID |-> "C1", Access |-> {AceGET}]>>
             /\ tk.BucketACLs = <<[Bck |-> NewBck("b1", "C1"), Access |-> {AceGET, AcePUT}]>>
             /\ aclCall.clusterID = "C1" )
           => /\ (aclCall.bck = NewBck("b1", "") /\ aclCall.perms = {AcePUT})
                    => aclCall.err = ErrNil
              /\ (aclCall.bck = NewBck("b2", "") /\ aclCall.perms = {AcePUT})
                    => aclCall.err = ErrNoPermissions
              /\ (aclCall.bck = NilBck /\ aclCall.perms = {AceAdmin})
                    => aclCall.err = ErrNoPermissions

\* C18: CheckPermissions returns nil only if the token is admin, or the request
\* is not empty, its cluster-level bits are granted by a cluster ACL that counts
\* for clusterID, and its object-level bits are granted by the bucket ACL of the
\* bucket if the token has one, otherwise by such a cluster ACL (for a bucket the
\* caller names with a UUID: by either).
C18_DenyByDefault ==
    (aclCall.called /\ aclCall.err = ErrNil) =>
        \/ tk.IsAdmin
        \/ LET cluPerms == aclCall.perms \cap AccessCluster
               objPerms == aclCall.perms \ AccessCluster
               clu == CluACLsOf(tk, aclCall.clusterID)
               bcks == BckACLsOf(tk, aclCall.clusterID, aclCall.bck)
           IN  /\ aclCall.perms # {}
               /\ cluPerms # {} => \E i \in clu : Has(tk.ClusterACLs[i].Access, cluPerms)
               /\ objPerms # {} =>
                     /\ aclCall.bck # NilBck
                     /\ IF aclCall.bck.Ns.UUID # ""
                        THEN \/ \E i \in bcks : Has(tk.BucketACLs[i].Access, objPerms)
                             \/ \E i \in clu : Has(tk.ClusterACLs[i].Access, objPerms)
                        ELSE IF bcks # {}
                        THEN \E i \in bcks : Has(tk.BucketACLs[i].Access, objPerms)
                        ELSE \E i \in clu : Has(tk.ClusterACLs[i].Access, objPerms)

DistinctBcks(acls) ==
    \A i, j \in 1..Len(acls) : i # j => acls[i].Bck # acls[j].Bck

EntriesOf(acls, bck) == {k \in 1..Len(acls) : acls[k].Bck = bck}

\* C19: MergeBckACLs(old, new), each list with one ACL per bucket, returns a list
\* with exactly one entry for the bucket of every new ACL, with the new access,
\* and exactly one entry, unchanged, for every old ACL whose bucket is not in new.
C19_MergeUpdatesOrAppends ==
    (merged.called /\ DistinctBcks(oldACLs) /\ DistinctBcks(newACLs)) =>
        /\ \A j \in 1..Len(newACLs) :
              /\ Cardinality(EntriesOf(merged.acls, newACLs[j].Bck)) = 1
              /\ \A k \in EntriesOf(merged.acls, newACLs[j].Bck) :
                    merged.acls[k].Access = newACLs[j].Access
        /\ \A i \in 1..Len(oldACLs) :
              EntriesOf(newACLs, oldACLs[i].Bck) = {} =>
                 /\ Cardinality(EntriesOf(merged.acls, oldACLs[i].Bck)) = 1
                 /\ \A k \in EntriesOf(merged.acls, oldACLs[i].Bck) :
                       merged.acls[k] = oldACLs[i]

\* ---- C20: the datapath query

\* the datapath keys
DatapathKeys ==
    {"provider", "namespace", "skip-vc", "unix-time", "uuid", "archpath", "archmime",
     "is-gfn", "orig-url", "append-type", "append-handle", "owt", "flt-presence",
     "dont-add-remote", "binfo", "etl-name", "silent", "latest-ver"}

\* the S3 and proxy keys that are parsed the conventional way
ConventionalKeys == {"pid", "uploadId"}

RECURSIVE SplitAmp(_)
SplitAmp(q) ==
    IF q = <<>> THEN <<>>
    ELSE IF \E i \in 1..Len(q) : q[i] = Amp
         THEN LET i == CHOOSE i \in 1..Len(q) : q[i] = Amp /\ \A j \in 1..(i - 1) : q[j] # Amp
              IN  <<SubSeq(q, 1, i - 1)>> \o SplitAmp(SubSeq(q, i + 1, Len(q)))
         ELSE <<q>>

\* the key of a segment: what stands before its first '=', or all of it
SegKey(seg) ==
    IF seg # <<>> /\ seg[1] # Eq /\ \E i \in 1..Len(seg) : seg[i] = Eq
    THEN SubSeq(seg, 1, (CHOOSE i \in 1..Len(seg) : seg[i] = Eq /\ \A j \in 1..(i - 1) : seg[j] # Eq) - 1)
    ELSE seg

IsDatapathSeg(seg) == SegKey(seg) \in {<<k>> : k \in DatapathKeys}

QueryKeys == {SegKey(SplitAmp(rawQuery)[i]) : i \in 1..Len(SplitAmp(rawQuery))}

UnknownQueryKeys == QueryKeys \ {<<k>> : k \in DatapathKeys \cup ConventionalKeys}

C21_StopEndsWalk ==
    \A e \in LiveErasers : e.nStop > 0 => ~WillProcess(e)

\* C22: the notifications sent while Run restarts its erasers cause one further
\* restart: when Run, having restarted before, takes a notification and begins
\* to restart again, no notification is left to cause another restart.
C22_NotificationsCoalesced ==
    [][(runPc = "loop" /\ runAfter = "reread" /\ runPc' = "stopAll")
          => (mpathChangeCh' = 0 /\ senders' = 0)]_vars

\* C23: an erase xaction that is not aborted completes without error: once every
\* eraser of Run's map has finished its walk, Run returns nil and the xaction is
\* finished.
AllErasersDone ==
    /\ runPc = "loop"
    /\ DOMAIN emap # {}
    /\ \A mp \in DOMAIN emap : emap[mp].pc = "done"

RunReturnedNil == runPc = "done" /\ runRes = "" /\ XactFinished

C23_EraseCompletes == AllErasersDone ~> RunReturnedNil

\* C24: the jogger calls DelCopy on a LOM only while it holds the exclusive
\* name-lock of the object's key.
C24_DelCopyUnderLock == walkPc = "delcopy" => nlock = "eraser"

\* C25: walk calls DelCopy only for an existing, correctly placed LOM that has a
\* copy; a directory, a file whose LOM cannot be filled or does not exist, a
\* misplaced object and an object without a copy are left as they were.
DelCopyEligible(l) ==
    /\ ~l.err /\ ~l.isDir
    /\ ~l.fillErr /\ ~l.Doesnotexist
    /\ ~l.Misplaced
    /\ l.had > 1

C25_DelCopyOnlyForPlacedCopies ==
    (walkPc = "delcopy" \/ lom.copies # lom.had) => DelCopyEligible(lom)

C25_Witness == walkPc = "done" /\ walkRes = "nil" /\ lom.copies < lom.had

\* C26: erase removes copies only until the count reaches the bucket's N: an
\* object with no more than N copies loses none, and an object loses all its
\* non-primary copies only when N is zero.
NonPrimary(n) == n - 1

C26_ErasesDownToN ==
    walkPc = "done" =>
        /\ NonPrimary(lom.had) <= lom.Copies => lom.copies = lom.had
        /\ (lom.had > 1 /\ lom.copies = 1) => lom.Copies = 0

\* ---- C27: LRU
\* C27: for each content type no cloud-bucket jogger starts until the local-bucket
\* joggers of all mountpaths have finished, and the joggers of one content type
\* have all finished before any of the next content type starts.
JoggersOf(contentType, bislocal) ==
    {j \in DOMAIN joggers : j.contentType = contentType /\ j.bislocal = bislocal}

AllFinished(contentType, bislocal) ==
    /\ \A mp \in LruMpaths : newlru(mp, contentType, bislocal) \in DOMAIN joggers
    /\ \A j \in JoggersOf(contentType, bislocal) : joggers[j] = "done"

C27_LocalBeforeCloud ==
    /\ \A t \in LruContentTypes :
          JoggersOf(t, FALSE) # {} => AllFinished(t, TRUE)
    /\ \A t1, t2 \in LruContentTypes :
          (/\ t1 # t2
           /\ JoggersOf(t1, TRUE) # {}
           /\ JoggersOf(t2, TRUE) # {})
          => \/ AllFinished(t1, TRUE) /\ AllFinished(t1, FALSE)
             \/ AllFinished(t2, TRUE) /\ AllFinished(t2, FALSE)

C27_Witness ==
    /\ JoggersOf(ObjectType, FALSE) # {}
    /\ JoggersOf(WorkfileType, FALSE) # {}
    /\ \E j \in DOMAIN joggers : joggers[j] = "run"

\* ---- C28, C29: the bucket inventory
\* C28: the cached inventory file is reused iff it exists and its mtime differs
\* from the upstream one by less than 4 seconds; otherwise it is fetched again.
\* A successful fetch leaves the cached file with the upstream mtime, and the call
\* that follows reuses it without downloading.
CacheFresh ==
    /\ cache.exists
    /\ cache.mtime - inv.csv < 4
    /\ inv.csv - cache.mtime < 4

C28_ReuseWithinTolerance ==
    [][/\ (inv.pc = "usable" /\ inv'.pc # "usable") =>
             /\ inv'.res = "reused" <=> CacheFresh
             /\ inv'.res = "reused" => inv'.pc = "done" /\ UNCHANGED <<cache, wfqn>>
             /\ ~CacheFresh => inv'.pc = "cleanup"
             /\ (inv.prevCsv # ZeroTime /\ inv.prevCsv = inv.csv) => inv'.res = "reused"
       /\ (inv.pc = "final" /\ inv'.res = "fetched") =>
             cache'.exists /\ cache'.mtime = inv.csv
       /\ (inv.pc = "get" /\ inv'.pc # "get") => ~CacheFresh]_vars

C28_Witness ==
    /\ inv.n = 2
    /\ inv.prevCsv # ZeroTime
    /\ inv.res = "reused"

MncRunning(bck) == RunningEntries(xacts, reg, ActMakeNCopies, bck, NoUUID)

RunningLists(uuid) ==
    {i \in reg : xacts[i].kind = ActList /\ xacts[i].uuid = uuid /\ xacts[i].st = Running}

C31_OneRunningListPerUUID ==
    /\ \A uuid \in UUIDs : Cardinality(RunningLists(uuid)) <= 1
    /\ \A t \in Tasks :
          (/\ task[t].op = "renewObjList"
           /\ task[t].pc = "done"
           /\ ~task[t].res.err
           /\ ~task[t].res.isNew)
          => task[t].delta = {}

\* ---- C32..C34: the erase xaction, its erasers and its notifiers
\* C32: stopping an eraser never blocks and never panics Run: eraser.stop() is
\* called at most once for an eraser and never on a stop channel that jog has not
\* made yet.
C32_StopNeverBlocksOrPanics ==
    /\ runPc \notin {"blocked", "panic"}
    /\ \A mp \in DOMAIN emap : emap[mp].nStop <= 1
    /\ \A e \in BagToSet(orphans) : e.nStop <= 1
    /\ \A mp \in DOMAIN emap : emap[mp].nStop > 0 => emap[mp].ch # "nil"

\* C33: at most one eraser of the xaction is walking a given mountpath: no
\* eraser of an earlier generation still traverses it while the respawned one runs.
Walking(mp) ==
    LET cur == IF mp \in DOMAIN emap /\ emap[mp].pc = "walk" THEN 1 ELSE 0
        RECURSIVE old(_)
        old(E) == IF E = {} THEN 0
                  ELSE LET e == CHOOSE x \in E : TRUE
                       IN  (IF e.mp = mp /\ e.pc = "walk" THEN CopiesIn(e, orphans) ELSE 0)
                           + old(E \ {e})
    IN  cur + old(BagToSet(orphans))

C33_OneEraserPerMountpath == \A mp \in AllMpaths : Walking(mp) <= 1

\* C34: a mountpath notification sent to the erase xaction returns to its
\* notifier: no Req*Mountpath call stays blocked in its send for ever.
C34_NotifierReturns == (senders > 0) ~> (senders = 0)

\* ---- C35..C38: multipart uploads
\* C35: AddPart and FinishUpload of one upload are atomic to each other: an
\* AddPart either registers its part before FinishUpload takes the parts, so that
\* FinishUpload removes its workfile, or it returns the not-found error and
\* registers nothing; once FinishUpload has returned, no AddPart, CheckParts or
\* ObjSize of that id succeeds until InitUpload is called with the id again.
IsAddPart == nAdds' = nAdds + 1

IsInitUpload == mclock' = mclock + 1

Registered(U, fqn) ==
    \E id \in DOMAIN U : \E i \in 1..Len(U[id].parts) : U[id].parts[i].fqn = fqn

PartNumsOf(parts) == {parts[i].num : i \in 1..Len(parts)}

\* the size of the part that was added last with number num
LastSize(parts, num) ==
    parts[CHOOSE i \in 1..Len(parts) :
              /\ parts[i].num = num
              /\ \A j \in (i + 1)..Len(parts) : parts[j].num # num].size

SumOver(parts, nums) ==
    LET RECURSIVE sum(_)
        sum(ns) == IF ns = {} THEN 0
                   ELSE LET n == CHOOSE x \in ns : TRUE
                        IN  LastSize(parts, n) + sum(ns \ {n})
    IN  sum(nums)

C36_PartNumbersUnique ==
    /\ \A id \in DOMAIN up : Cardinality(PartNumsOf(up[id].parts)) = Len(up[id].parts)
    /\ (mcall.op = "ObjSize" /\ mcall.pc = "done" /\ ~mcall.res.err) =>
          mcall.size = SumOver(mcall.pre.up[mcall.id].parts, PartNumsOf(mcall.pre.up[mcall.id].parts))

\* C37: ListUploads returns the active uploads in the order of their
\* initiation; with a marker that is the id of an active upload only the
\* uploads initiated after the marker; with maxUploads > 0 at most maxUploads;
\* IsTruncated is true exactly when uploads after the last returned one remain.
\* Stated where every active upload is of the bucket asked for.
ListedUploads == mcall.op = "ListUploads" /\ mcall.pc = "done"

AfterMarker(U, idMarker) ==
    LET all == sortedResults(U)
    IN  IF idMarker = "" THEN all
        ELSE SelectSeq(all, LAMBDA r : r.Initiated > U[idMarker].ctime)

C37_ListUploadsPages ==
    (/\ ListedUploads
     /\ \A id \in DOMAIN mcall.pre.up : mcall.pre.up[id].bckName = mcall.bck
     /\ mcall.marker = "" \/ mcall.marker \in DOMAIN mcall.pre.up) =>
        LET after == AfterMarker(mcall.pre.up, mcall.marker)
            want  == IF mcall.max > 0 /\ Len(after) > mcall.max
                     THEN SubSeq(after, 1, mcall.max) ELSE after
        IN  /\ mcall.list.Uploads = want
            /\ mcall.list.IsTruncated <=> Len(want) < Len(after)

\* C38: ListUploads(bckName, ...) returns only uploads that were initiated for
\* the bucket bckName.
C38_ListUploadsOfBucket ==
    ListedUploads =>
        \A i \in 1..Len(mcall.list.Uploads) :
            mcall.pre.up[mcall.list.Uploads[i].UploadID].bckName = mcall.bck

\* ---- C39: lru
\* C39: once the LRU xaction is aborted InitAndRun starts no further jogger:
\* an abort in the local phase prevents the cloud phase and the content types
\* that remain; InitAndRun returns only after the running joggers have ended.
C39_NoJoggerAfterAbort ==
    [][/\ lru.aborted => DOMAIN joggers' = DOMAIN joggers
       /\ (lru.pc # "done" /\ lru'.pc = "done") => \A j \in DOMAIN joggers : joggers[j] = "done"]_vars

\* ---- C40: dpqPool
\* C40: after any sequence of dpqAlloc, parse and dpqFree every dpq of the
\* pool is the zero value, and dpqAlloc returns a dpq with all strings empty
\* and all flags false.
IsZeroDpq(d) ==
    /\ d.bck = [provider |-> EmptyStr, namespace |-> EmptyStr]
    /\ d.apnd = [ty |-> EmptyStr, hdl |-> EmptyStr]
    /\ d.arch = [path |-> EmptyStr, mime |-> EmptyStr, regx |-> EmptyStr, mode |-> EmptyStr]
    /\ \A f \in {"ptime", "uuid", "origURL", "owt", "fltPresence", "etlName", "binfo"} :
          d[f] = EmptyStr
    /\ \A f \in {"skipVC", "isGFN", "dontAddRemote", "silent", "latestVer", "isS3"} : ~d[f]

C40_PoolHoldsZeroDpqs ==
    [][/\ \A i \in dpqPool : IsZeroDpq(dpqs[i].v)
       /\ \A i \in dpqHeld' \ dpqHeld : IsZeroDpq(dpqs'[i].v)]_vars

C40_Witness ==
    /\ \E i \in dpqHeld : dpqs[i].written /\ IsZeroDpq(dpqs[i].v)
    /\ \E i \in dpqPool : dpqs[i].written

====
